---- MODULE Spec2Model ----
(***************************************************************************)
(* Real-time detection pipeline of the WebRTC object-detection demo.      *)
(*                                                                         *)
(* Three browser programs are modelled, each as its own specification:    *)
(*   Spec      static/app.js driving a DetectionEngine (static/           *)
(*             detection.js) or a GeminiDetectionEngine (static/          *)
(*             gemini_detection.js);                                       *)
(*   SpecRTC   the WebRTCDetectionApp class (unnamed/part_000);            *)
(*   SpecWS    the signaling channel, connectWebSocket, which the three   *)
(*             front ends (app.js, app_simple.js, WebRTCDetectionApp)     *)
(*             share line for line.                                        *)
(* A browser page runs one cooperative event loop: every action below is  *)
(* one task (a handler run up to its next real suspension point).  A      *)
(* promise that is already resolved continues in the same task, so an     *)
(* await of it is not a suspension point.                                  *)
(***************************************************************************)
EXTENDS Integers, Sequences, FiniteSets, TLC

VARIABLES
    now,               \* Date.now(), in ms
    (* ---- the engine object (detection.js / gemini_detection.js) ---- *)
    detectionEngine,   \* app.js:11  "null" | "yolo" | "gemini"
    isLoaded,          \* this.isLoaded
    isDetecting,       \* this.isDetecting, the busy flag
    session,           \* DetectionEngine.session: "null" | "loaded"
    lastFrameTime,     \* GeminiDetectionEngine.lastFrameTime
    detectionHistory,  \* GeminiDetectionEngine.detectionHistory, newest first
    inflight,          \* the engine's suspended calls (model run, fetch, retry sleep)
    lastRequest,       \* the last fetch() the remote engine sent: its time and kind,
                       \* and the time of the last first attempt of a detect call
    lastCached,        \* the batch the remote engine cached last (history variable)
    (* ---- app.js ---- *)
    loadPhase,         \* where loadModelAndEnableCamera stands
    startBtnDisabled,  \* document.getElementById('startBtn').disabled
    stopBtnDisabled,   \* document.getElementById('stopBtn').disabled
    pendingStarts,     \* startCamera calls suspended at an await
    localStream,       \* "null" | "stream"
    pc,                \* "null" | "open"
    videoReady,        \* localVideo.videoWidth # 0 and readyState >= 2
    detectionActive,   \* app.js:10
    detectionInterval, \* the global holding the sampler's timer id
    intervals,         \* live setInterval timers: <<id, frameCount>>
    nextTimerId,       \* the id the next setInterval returns
    overlay,           \* what the overlay canvas shows
    detectionList,     \* what the detection list shows
    (* ---- WebRTCDetectionApp (unnamed/part_000) ---- *)
    inferenceMode,     \* this.inferenceMode
    wasmModel,         \* this.wasmModel: "null" | "mock"
    rtcStream,         \* this.localStream
    rtcVideoWidth,     \* this.localVideo.videoWidth # 0
    loops,             \* processFrame loops: one record per startVideoProcessing
    outstanding,       \* frames sent to the server whose detections are not back
    rtcOverlay,        \* what drawOverlays last drew
    rtcStarts,         \* startCamera calls suspended at an await
    (* ---- signaling channel ---- *)
    ws,                \* the WebSocket objects not yet closed, newest last
    reconnectTimers,   \* pending setTimeout(connectWebSocket, 3000)
    (* ---- the post-processor (detection.js), run on its own ---- *)
    rawOutput,         \* results.output0.data, as rows
    postRuns,          \* what postprocessResults returned, one entry per run
    (* ---- float32ToFloat16 (detection.js), run on its own ---- *)
    f32,               \* the argument as float32: sign, exponent and mantissa fields
    f16,               \* the 16 bits returned, -1 before the call
    (* ---- metrics and benchmark ---- *)
    metrics,           \* DetectionEngine.metrics: frameCount, totalDetections, latencies
    rtcMetrics,        \* WebRTCDetectionApp.metrics: frames, detections, latencies, startTime
    sampleLog,         \* every latency sample since the buffer was last emptied
    benchmarkActive,   \* window.benchmarkActive
    benchmarkStartTime, \* window.benchmarkStartTime, 0 for null
    benchBtnDisabled,  \* document.getElementById('benchBtn').disabled
    benchTimer,        \* when the pending 30 s timer of runBenchmark is due, 0 for none
    report,            \* the metrics file exported last
    atElapse,          \* the collector's values when the last benchmark's time elapsed
    latencyStats,      \* the latency statistics computed last: metrics.medianLatency,
                       \* p95Latency, meanLatency (as sum and count) of the engine,
                       \* latencyStats of WebRTCDetectionApp.updateMetricsDisplay
    (* ---- what the page tells the user ---- *)
    lastAlert,         \* the last alert() dialog: "none" | "camera" | "benchmark"
    (* ---- inbound signaling messages ---- *)
    uncaught,          \* the last error no handler caught: "none" | "exception" |
                       \* "rejection" (of the promise of an async handler)
    stored,            \* WebRTCDetectionApp.detections: its keys in insertion order
    (* ---- bench/run_bench.sh ---- *)
    bench,             \* one run of the script: where it stands, what its
                       \* environment provides, the files and the summary written
    (* ---- detection_config.js ---- *)
    DETECTION_CONFIG,  \* DETECTION_INTERVAL of the object the top-level `let`
                       \* is bound to (binding) and of window.DETECTION_CONFIG
                       \* (window); served: detection_interval of /api/config,
                       \* 0 when the answer has none
    (* ---- the RTCPeerConnection held in pc / this.peerConnection ---- *)
    negotiation        \* local: setLocalDescription has set its offer;
                       \* remote: "none", or which offer the answer set by
                       \* setRemoteDescription answers: this connection's
                       \* ("own") or that of a connection made before ("other")

engVars == <<detectionEngine, isLoaded, isDetecting, session, lastFrameTime,
             detectionHistory, inflight, lastRequest, lastCached>>
appVars == <<loadPhase, startBtnDisabled, stopBtnDisabled, pendingStarts,
             localStream, pc, videoReady, detectionActive, detectionInterval,
             intervals, nextTimerId, overlay, detectionList>>
rtcVars == <<inferenceMode, wasmModel, rtcStream, rtcVideoWidth, loops,
             outstanding, rtcOverlay, rtcStarts>>
wsVars  == <<ws, reconnectTimers>>
postVars == <<rawOutput, postRuns>>
halfVars == <<f32, f16>>
metVars == <<metrics, rtcMetrics, sampleLog, benchmarkActive, benchmarkStartTime,
             benchBtnDisabled, benchTimer, report, atElapse, latencyStats>>
obsVars == <<lastAlert>>
msgVars == <<uncaught, stored>>
envVars == <<bench, DETECTION_CONFIG>>
sigVars == <<negotiation>>
auxVars == <<postVars, halfVars, metVars, obsVars, msgVars, envVars, sigVars>>
vars    == <<now, engVars, appVars, rtcVars, wsVars, auxVars>>

(***************************************************************************)
(* Bounds of the model.                                                    *)
(***************************************************************************)
MaxTime          == 24000   \* the clock stops here
TimeStep         == 1000    \* granularity of the clock
MaxTimers        == 2       \* setInterval calls per run
MaxPendingStarts == 1       \* startCamera calls suspended at once
MaxBatch         == 1       \* detections in one model / API batch
MaxLoops         == 2       \* startVideoProcessing calls per run
MaxFrames        == 2       \* frames one processFrame loop captures
MaxRtcTime       == 16000   \* the clock of WebRTCDetectionApp's page stops here
MaxOutstanding   == 2       \* frames awaiting the server's detections
MaxRows          == 3       \* rows of raw model output (25200 in the code)
MaxRuns          == 2       \* runs of the post-processor on one output
MaxSamples       == 102     \* latency samples recorded in one run
MaxVaried        == 2       \* leading samples whose count and latency vary
BenchStep        == 10000   \* clock granularity during a benchmark (ms)
MaxBenchTime     == 48000   \* the benchmark clock stops here (ms)
MaxBenchFrames   == 2       \* frames counted between two resets
MaxMsgFrames     == 3       \* detections messages counted in one run
MaxDuration      == 2       \* seconds a run of run_bench.sh lasts, at most
MaxFilterRows    == 2       \* rows of a raw output under SpecFilter
MaxGridRows      == 12      \* rows of a raw output under SpecLimit
MaxGridVaried    == 5       \* leading rows whose score varies under SpecLimit
MaxSigTime       == 14000   \* the clock stops here under SpecSig

(***************************************************************************)
(* Program constants.                                                      *)
(***************************************************************************)
frameInterval    == 8000    \* gemini_detection.js:12
maxHistoryLength == 5       \* gemini_detection.js:16
maxRetries       == 3       \* gemini_detection.js:109
baseDelay        == 2000    \* gemini_detection.js:110
SampleEvery      == 3       \* app.js:462
reconnectDelay   == 3000    \* app.js:204, app_simple.js:106, part_000:83
inputSize           == 640  \* detection.js:11
confidenceThreshold == 5    \* detection.js:237, 0.5 in tenths
classThreshold      == 60   \* detection.js:238, 0.6 in hundredths
maxDetections       == 10   \* detection.js:282, slice(0, 10)
latencyCapacity     == 100  \* detection.js:370
GeminiMockCount  == 3       \* gemini_detection.js:366
benchmarkDuration == 30000 \* app.js:707, part_000:486
storeCapacity    == 100     \* part_000:380
DefaultInterval  == 2000    \* DETECTION_INTERVAL of the defaults, and the `|| 2000`s

RECURSIVE Pow2(_)
Pow2(k) == IF k = 0 THEN 1 ELSE 2 * Pow2(k - 1)

(***************************************************************************)
(* Detection batches.  A batch is abstracted to where it came from and how *)
(* many detections it holds; the empty array is one value whatever        *)
(* produced it.                                                            *)
(***************************************************************************)
EmptyBatch == [src |-> "none", n |-> 0]
Batch(src, n) == IF n = 0 THEN EmptyBatch ELSE [src |-> src, n |-> n]

\* app.js generateTestDetections: always the same two boxes
generateTestDetections == Batch("test", 2)

\* detection.js generateMockDetections: 0, 1 or 2 boxes, by the time of day
YoloMockBatches == {Batch("mock", n) : n \in 0..2}

\* gemini_detection.js generateMockDetections: always three boxes
GeminiMockDetections == Batch("mock", GeminiMockCount)

ClearOverlay == [kind |-> "clear", batch |-> EmptyBatch]

Remove(s, k) == SubSeq(s, 1, k - 1) \o SubSeq(s, k + 1, Len(s))

(***************************************************************************)
(* The engines: detection.js and gemini_detection.js.                      *)
(***************************************************************************)

EngineBusy_NoFlag == ~isLoaded

\* detectObjects' first test, the same line in both engines
EngineBusy == ~isLoaded \/ isDetecting

CooldownActive_Never == FALSE

\* GeminiDetectionEngine.detectObjects' second test
CooldownActive == now - lastFrameTime < frameInterval

GetLastDetections_Oldest ==
    IF Len(detectionHistory) > 0
    THEN detectionHistory[Len(detectionHistory)] ELSE EmptyBatch

\* GeminiDetectionEngine.getLastDetections
GetLastDetections ==
    IF Len(detectionHistory) > 0 THEN detectionHistory[1] ELSE EmptyBatch

\* GeminiDetectionEngine.addToHistory: unshift, then pop when too long
AddToHistory(h, d) ==
    LET u == <<d>> \o h
    IN  IF Len(u) > maxHistoryLength THEN SubSeq(u, 1, Len(u) - 1) ELSE u

RetryDelay_Fixed(retryCount) == baseDelay

\* callGeminiAPI: the delay before retry number retryCount + 1
RetryDelay(retryCount) == baseDelay * Pow2(retryCount)

\* callGeminiAPI: what a 429 response leads to
RetryAllowed(retryCount) == retryCount < maxRetries

\* What a detectObjects call that does not start an inference returns
SkippedResult ==
    IF detectionEngine = "gemini" THEN GetLastDetections ELSE EmptyBatch

\* DetectionEngine.detectObjects, catch branch: the error is logged and mock
\* detections are returned to the caller
YoloOnError(mock) == [kind |-> "return", batch |-> mock]

\* GeminiDetectionEngine.detectObjects, catch branch
GeminiOnError(is429) ==
    [kind |-> "return",
     batch |-> IF is429 THEN GeminiMockDetections ELSE GetLastDetections]

Call(purpose, phase, timer) ==
    [purpose |-> purpose, phase |-> phase, retryCount |-> 0, wakeAt |-> 0,
     timer |-> timer]

(***************************************************************************)
(* app.js: the sampler callback's continuation once detectObjects has     *)
(* settled with r (a returned batch or a thrown error).                    *)
(***************************************************************************)
TimerIds == {intervals[i].id : i \in 1..Len(intervals)}

ClearTimer(ivs, id) == SelectSeq(ivs, LAMBDA t : t.id # id)

\* app.js 483-497: clear, draw, update the list, test boxes when empty
ShowResult(batch) ==
    /\ overlay' = IF batch = EmptyBatch
                  THEN [kind |-> "test", batch |-> generateTestDetections]
                  ELSE [kind |-> "detections", batch |-> batch]
    /\ detectionList' = IF batch = EmptyBatch THEN generateTestDetections ELSE batch

\* app.js 480-513, with ivs the timers left by the rest of the step
AfterDetect(r, ivs) ==
    IF r.kind = "return"
    THEN /\ ShowResult(r.batch)
         /\ intervals' = ivs
         /\ UNCHANGED <<detectionActive, detectionInterval>>
    ELSE IF r.tensor
    THEN /\ intervals' = ClearTimer(ivs, detectionInterval.id)
         /\ detectionActive' = FALSE
         /\ UNCHANGED <<overlay, detectionList, detectionInterval>>
    ELSE /\ intervals' = ivs
         /\ UNCHANGED <<overlay, detectionList, detectionActive, detectionInterval>>

(***************************************************************************)
(* app.js: loading the engine.                                             *)
(***************************************************************************)
NullInterval == [declared |-> TRUE, id |-> 0]

\* loadModelAndEnableCamera up to its await of the engine's init()
\* loadDetectionConfig: the `let` is bound to a new object made from the
\* answer; window.DETECTION_CONFIG still is the object of the script's load
loadDetectionConfig(served) ==
    [DETECTION_CONFIG EXCEPT
        !.served = served,
        !.binding = IF served = 0 THEN DefaultInterval ELSE served]

LoadConfig(engine, keyOk, served) ==
    /\ loadPhase = "config"
    /\ DETECTION_CONFIG' = loadDetectionConfig(served)
    /\ IF engine = "gemini" /\ ~keyOk
       THEN /\ loadPhase' = "nokey"
            /\ UNCHANGED <<detectionEngine, inflight, lastRequest>>
       ELSE /\ loadPhase' = "init"
            /\ detectionEngine' = engine
            /\ IF engine = "gemini"
               THEN \* init -> testConnection -> callGeminiAPI -> fetch
                    /\ inflight' = Append(inflight, Call("test", "fetch", 0))
                    /\ lastRequest' = [lastRequest EXCEPT !.t = now, !.kind = "test"]
               ELSE UNCHANGED <<inflight, lastRequest>>
    /\ UNCHANGED <<now, isLoaded, isDetecting, session, lastFrameTime,
                   detectionHistory, lastCached, startBtnDisabled, stopBtnDisabled,
                   pendingStarts, localStream, pc, videoReady, detectionActive,
                   detectionInterval, intervals, nextTimerId, overlay,
                   detectionList, rtcVars, wsVars>>
    /\ UNCHANGED <<postVars, halfVars, metVars, obsVars, msgVars, bench, sigVars>>

\* DetectionEngine.init settling, and the rest of loadModelAndEnableCamera.
\* The model loads, or fails to load, or the runtime script fails to load;
\* both failures leave isLoaded = true with no session (mock mode).
YoloInitDone(outcome) ==
    /\ loadPhase = "init" /\ detectionEngine = "yolo"
    /\ session' = IF outcome = "loaded" THEN "loaded" ELSE "null"
    /\ isLoaded' = TRUE
    /\ loadPhase' = "ready"
    /\ startBtnDisabled' = FALSE
    /\ UNCHANGED <<now, detectionEngine, isDetecting, lastFrameTime,
                   detectionHistory, inflight, lastRequest, lastCached,
                   stopBtnDisabled,
                   pendingStarts, localStream, pc, videoReady, detectionActive,
                   detectionInterval, intervals, nextTimerId, overlay,
                   detectionList, rtcVars, wsVars>>
    /\ UNCHANGED auxVars

(***************************************************************************)
(* app.js: camera start and stop.                                          *)
(***************************************************************************)
\* startDetection, given the timers ivs
\* window.DETECTION_CONFIG?.DETECTION_INTERVAL || 2000
TickInterval ==
    IF DETECTION_CONFIG.window = 0 THEN DefaultInterval
    ELSE DETECTION_CONFIG.window

StartDetection ==
    IF detectionActive \/ detectionEngine = "null"
    THEN UNCHANGED <<detectionActive, detectionInterval, intervals, nextTimerId>>
    ELSE /\ detectionActive' = TRUE
         /\ detectionInterval' = [declared |-> TRUE, id |-> nextTimerId]
         /\ intervals' = Append(intervals, [id |-> nextTimerId, frameCount |-> 0,
                                            period |-> TickInterval])
         /\ nextTimerId' = nextTimerId + 1

\* a click on the start button: startCamera up to await getUserMedia
StartCamera ==
    /\ ~startBtnDisabled
    /\ Len(pendingStarts) < MaxPendingStarts
    /\ nextTimerId + Len(pendingStarts) <= MaxTimers
    /\ pendingStarts' = Append(pendingStarts, "gum")
    /\ UNCHANGED <<now, engVars, loadPhase, startBtnDisabled, stopBtnDisabled,
                   localStream, pc, videoReady, detectionActive,
                   detectionInterval, intervals, nextTimerId, overlay,
                   detectionList, rtcVars, wsVars>>
    /\ UNCHANGED auxVars

\* an RTCPeerConnection just made, or none: no description is set
NoNegotiation == [local |-> FALSE, remote |-> "none"]

\* startCamera calls suspended at await createOffer whose connection is
\* replaced or closed: their offer is no longer the offer of the page's
\* connection, and setLocalDescription will reject it
Orphan(starts) ==
    [k \in DOMAIN starts |-> IF starts[k] = "offer" THEN "orphan" ELSE starts[k]]

\* the page's connection is replaced or closed: the offers it has sent are
\* from now on the offers of another connection
Disown(sockets) ==
    [k \in DOMAIN sockets |->
        [sockets[k] EXCEPT !.offers = IF @ = {} THEN {} ELSE {"other"}]]

\* the offer of the page's connection has gone out on the socket made
\* last, if that socket is open
Offered(sockets) ==
    IF sockets # <<>> /\ sockets[Len(sockets)].state = "open"
    THEN [sockets EXCEPT ![Len(sockets)].sent = @ \cup {"offer"},
                         ![Len(sockets)].offers = @ \cup {"own"}]
    ELSE sockets

StartCameraCatch_Silent == UNCHANGED lastAlert

\* the catch of startCamera: updateStatus, alert, showTroubleshooting
StartCameraCatch == lastAlert' = "camera"

\* getUserMedia settles (the last constraint set has been tried): on success
\* the stream is attached and createPeerConnection runs up to await
\* createOffer
GumDone(k, ok) ==
    /\ k \in 1..Len(pendingStarts) /\ pendingStarts[k] = "gum"
    /\ IF ok
       THEN /\ localStream' = "stream"
            /\ pc' = "open"
            /\ negotiation' = NoNegotiation
            /\ ws' = Disown(ws)
            /\ pendingStarts' = [Orphan(pendingStarts) EXCEPT ![k] = "offer"]
            /\ UNCHANGED lastAlert
       ELSE /\ pendingStarts' = Remove(pendingStarts, k)
            /\ StartCameraCatch
            /\ UNCHANGED <<localStream, pc, negotiation, ws>>
    /\ UNCHANGED <<now, detectionEngine, isLoaded, isDetecting, session,
                   lastFrameTime, detectionHistory, inflight, lastRequest,
                   lastCached, loadPhase, startBtnDisabled, stopBtnDisabled,
                   videoReady,
                   detectionActive, detectionInterval, intervals, nextTimerId,
                   overlay, detectionList, rtcVars, reconnectTimers>>
    /\ UNCHANGED <<postVars, halfVars, metVars, msgVars, envVars>>

\* createOffer / setLocalDescription settle.  The offer is sent if the
\* socket is open; setLocalDescription throws on the null left by
\* stopCamera and rejects the offer of a connection replaced since, and
\* createPeerConnection catches either.  startCamera runs to its end.
OfferDone(k) ==
    /\ k \in 1..Len(pendingStarts) /\ pendingStarts[k] \in {"offer", "orphan"}
    /\ pendingStarts' = Remove(pendingStarts, k)
    /\ IF pendingStarts[k] = "offer" /\ pc # "null"
       THEN /\ negotiation' = [negotiation EXCEPT !.local = TRUE]
            /\ ws' = Offered(ws)
       ELSE UNCHANGED <<negotiation, ws>>
    /\ StartDetection
    /\ startBtnDisabled' = TRUE
    /\ stopBtnDisabled' = FALSE
    /\ UNCHANGED <<now, engVars, loadPhase, localStream, pc, videoReady,
                   overlay, detectionList, rtcVars, reconnectTimers>>
    /\ UNCHANGED <<postVars, halfVars, metVars, obsVars, msgVars, envVars>>

\* the video element gets its first frame
VideoLoaded ==
    /\ localStream = "stream" /\ ~videoReady
    /\ videoReady' = TRUE
    /\ UNCHANGED <<now, engVars, loadPhase, startBtnDisabled, stopBtnDisabled,
                   pendingStarts, localStream, pc, detectionActive,
                   detectionInterval, intervals, nextTimerId, overlay,
                   detectionList, rtcVars, wsVars>>
    /\ UNCHANGED auxVars

\* a click on the stop button: stopCamera.  Reading detectionInterval before
\* any startDetection has assigned it throws a ReferenceError (the name is
\* never declared), which ends the handler after its first statement.
StopCamera ==
    /\ ~stopBtnDisabled
    /\ detectionActive' = FALSE
    /\ IF ~detectionInterval.declared
       THEN /\ uncaught' = "exception"
            /\ UNCHANGED <<detectionInterval, intervals, overlay, detectionList,
                           localStream, videoReady, pc, startBtnDisabled,
                           stopBtnDisabled, pendingStarts, ws, negotiation>>
       ELSE /\ UNCHANGED uncaught
            /\ intervals' = ClearTimer(intervals, detectionInterval.id)
            /\ detectionInterval' = NullInterval
            /\ overlay' = ClearOverlay
            /\ detectionList' = EmptyBatch
            /\ localStream' = "null"
            /\ videoReady' = FALSE
            /\ pc' = "null"
            /\ negotiation' = NoNegotiation
            /\ ws' = Disown(ws)
            /\ pendingStarts' = Orphan(pendingStarts)
            /\ startBtnDisabled' = FALSE
            /\ stopBtnDisabled' = TRUE
    /\ UNCHANGED <<now, detectionEngine, isLoaded, isDetecting, session,
                   lastFrameTime, detectionHistory, inflight, lastRequest,
                   lastCached, loadPhase, nextTimerId, rtcVars,
                   reconnectTimers>>
    /\ UNCHANGED <<postVars, halfVars, metVars, obsVars, stored, envVars>>

(***************************************************************************)
(* app.js: the sampler.  One firing of the setInterval callback of timer   *)
(* i, up to the await of detectObjects or, when detectObjects settles in   *)
(* the same task, to the callback's end.                                   *)
(***************************************************************************)
SamplerTick(i) ==
    /\ i \in 1..Len(intervals)
    /\ videoReady /\ isLoaded                     \* else the callback returns
    /\ LET c   == (intervals[i].frameCount + 1) % SampleEvery
           ivs == [intervals EXCEPT ![i].frameCount = c]
       IN  IF c # 0
           THEN \* only every third firing goes on
                /\ intervals' = ivs
                /\ UNCHANGED <<engVars, overlay, detectionList, detectionActive,
                               detectionInterval>>
           ELSE IF EngineBusy \/ (detectionEngine = "gemini" /\ CooldownActive)
           THEN \* detectObjects returns at once, starting nothing
                /\ AfterDetect([kind |-> "return", batch |-> SkippedResult], ivs)
                /\ UNCHANGED engVars
           ELSE IF detectionEngine = "gemini"
           THEN \* the flag is taken and the request is sent
                /\ isDetecting' = TRUE
                /\ lastFrameTime' = now
                /\ lastRequest' = [t |-> now, kind |-> "detect", detectAt |-> now]
                /\ inflight' = Append(inflight,
                                      Call("detect", "fetch", intervals[i].id))
                /\ intervals' = ivs
                /\ UNCHANGED <<detectionEngine, isLoaded, session,
                               detectionHistory, lastCached, overlay, detectionList,
                               detectionActive, detectionInterval>>
           ELSE IF session = "loaded"
           THEN \* the flag is taken and session.run is awaited
                /\ isDetecting' = TRUE
                /\ inflight' = Append(inflight,
                                      Call("detect", "run", intervals[i].id))
                /\ intervals' = ivs
                /\ UNCHANGED <<detectionEngine, isLoaded, session, lastFrameTime,
                               detectionHistory, lastRequest, lastCached, overlay,
                               detectionList, detectionActive, detectionInterval>>
           ELSE \* mock mode: the flag is taken and released in this task
                /\ \E b \in YoloMockBatches :
                       AfterDetect([kind |-> "return", batch |-> b], ivs)
                /\ UNCHANGED engVars
    /\ UNCHANGED <<now, loadPhase, startBtnDisabled, stopBtnDisabled,
                   pendingStarts, localStream, pc, videoReady, nextTimerId,
                   rtcVars, wsVars>>
    /\ UNCHANGED auxVars

\* the flag is cleared at the end of the try block only
YoloRunDone_FlagKeptOnError(k, ok, n) ==
    /\ k \in 1..Len(inflight) /\ inflight[k].phase = "run"
    /\ inflight' = Remove(inflight, k)
    /\ isDetecting' = IF ok THEN FALSE ELSE isDetecting
    /\ IF ok
       THEN AfterDetect([kind |-> "return", batch |-> Batch("model", n)],
                        intervals)
       ELSE \E b \in YoloMockBatches : AfterDetect(YoloOnError(b), intervals)
    /\ UNCHANGED <<now, detectionEngine, isLoaded, session, lastFrameTime,
                   detectionHistory, lastRequest, lastCached, loadPhase,
                   startBtnDisabled,
                   stopBtnDisabled, pendingStarts, localStream, pc, videoReady,
                   nextTimerId, rtcVars, wsVars>>
    /\ UNCHANGED auxVars

(***************************************************************************)
(* DetectionEngine: session.run settles (runONNXInference), detectObjects *)
(* finishes, and the sampler callback that awaited it continues.          *)
(***************************************************************************)
YoloRunDone(k, ok, n) ==
    /\ k \in 1..Len(inflight) /\ inflight[k].phase = "run"
    /\ inflight' = Remove(inflight, k)
    /\ isDetecting' = FALSE                             \* finally
    /\ IF ok
       THEN AfterDetect([kind |-> "return", batch |-> Batch("model", n)],
                        intervals)
       ELSE \E b \in YoloMockBatches : AfterDetect(YoloOnError(b), intervals)
    /\ UNCHANGED <<now, detectionEngine, isLoaded, session, lastFrameTime,
                   detectionHistory, lastRequest, lastCached, loadPhase,
                   startBtnDisabled,
                   stopBtnDisabled, pendingStarts, localStream, pc, videoReady,
                   nextTimerId, rtcVars, wsVars>>
    /\ UNCHANGED auxVars

(***************************************************************************)
(* GeminiDetectionEngine: one fetch of callGeminiAPI settles.              *)
(*   r = "ok"     a 200 response whose content is text (empty when n = 0  *)
(*                for the connection test)                                 *)
(*   r = "429"    rate limited                                             *)
(*   r = "error"  any other failure (network error, other status, an API  *)
(*                error object, a body without choices)                    *)
(***************************************************************************)
\* the call ends: detectObjects' try / catch / finally, then the caller
GeminiDetectEnds(k, r, n) ==
    /\ inflight' = Remove(inflight, k)
    /\ isDetecting' = FALSE                             \* finally
    /\ IF r = "ok"
       THEN /\ detectionHistory' = AddToHistory(detectionHistory, Batch("api", n))
            /\ lastCached' = Batch("api", n)
            /\ AfterDetect([kind |-> "return", batch |-> Batch("api", n)],
                           intervals)
       ELSE /\ AfterDetect(GeminiOnError(r = "429"), intervals)
            /\ UNCHANGED <<detectionHistory, lastCached>>
    /\ UNCHANGED <<isLoaded, loadPhase, startBtnDisabled>>

\* the connection test ends: testConnection, init, loadModelAndEnableCamera
GeminiTestEnds(k, r, n) ==
    /\ inflight' = Remove(inflight, k)
    /\ IF r = "ok" /\ n > 0
       THEN /\ isLoaded' = TRUE
            /\ loadPhase' = "ready"
            /\ startBtnDisabled' = FALSE
       ELSE /\ isLoaded' = FALSE
            /\ loadPhase' = "failed"
            /\ UNCHANGED startBtnDisabled
    /\ UNCHANGED <<isDetecting, detectionHistory, lastCached, overlay,
                   detectionList, intervals, detectionActive, detectionInterval>>

GeminiResponse(k, r, n) ==
    /\ k \in 1..Len(inflight) /\ inflight[k].phase = "fetch"
    /\ IF r = "429" /\ RetryAllowed(inflight[k].retryCount)
       THEN \* await the backoff delay
            /\ inflight' = [inflight EXCEPT
                   ![k].phase = "sleep",
                   ![k].wakeAt = now + RetryDelay(inflight[k].retryCount)]
            /\ UNCHANGED <<isLoaded, isDetecting, detectionHistory, lastCached,
                           loadPhase, startBtnDisabled, overlay, detectionList, intervals,
                           detectionActive, detectionInterval>>
       ELSE IF inflight[k].purpose = "detect"
       THEN GeminiDetectEnds(k, r, n)
       ELSE GeminiTestEnds(k, r, n)
    /\ UNCHANGED <<now, detectionEngine, session, lastFrameTime, lastRequest,
                   stopBtnDisabled, pendingStarts, localStream, pc, videoReady,
                   nextTimerId, rtcVars, wsVars>>
    /\ UNCHANGED auxVars

\* the backoff delay is over: callGeminiAPI calls itself with retryCount + 1
GeminiRetry(k) ==
    /\ k \in 1..Len(inflight) /\ inflight[k].phase = "sleep"
    /\ now >= inflight[k].wakeAt
    /\ inflight' = [inflight EXCEPT ![k].phase = "fetch",
                                    ![k].retryCount = @ + 1]
    /\ lastRequest' = [lastRequest EXCEPT !.t = now, !.kind = "retry"]
    /\ UNCHANGED <<now, detectionEngine, isLoaded, isDetecting, session,
                   lastFrameTime, detectionHistory, lastCached, appVars, rtcVars,
                   wsVars>>
    /\ UNCHANGED auxVars

\* time passes; a reconnect timer that is due fires before the clock moves
Advance ==
    /\ now + TimeStep <= MaxTime
    /\ \A j \in 1..Len(reconnectTimers) : reconnectTimers[j].due > now
    /\ now' = now + TimeStep
    /\ UNCHANGED <<engVars, appVars, rtcVars, wsVars>>
    /\ UNCHANGED auxVars

(***************************************************************************)
(* Spec: app.js with its engine.                                           *)
(***************************************************************************)
\* the page loads at a time far from the epoch: the first detect call is
\* never inside the cooldown of lastFrameTime = 0
PageLoadTime == frameInterval
\* app.js 23: window.sessionStartTime = Date.now() in the load handler
sessionStartTime == PageLoadTime

RtcIdle ==
    /\ inferenceMode = "wasm" /\ wasmModel = "null" /\ rtcStream = "null"
    /\ rtcVideoWidth = FALSE /\ loops = <<>> /\ outstanding = 0
    /\ rtcOverlay = ClearOverlay /\ rtcStarts = <<>>

WsIdle == ws = <<>> /\ reconnectTimers = <<>>

PostIdle == rawOutput = <<>> /\ postRuns = <<>>

HalfIdle == f32 = [sign |-> 0, e |-> 0, m |-> 0] /\ f16 = -1

\* medianLatency: 0, p95Latency: 0, meanLatency: 0 of the constructor;
\* { median: 0, p95: 0, mean: 0 } of updateMetricsDisplay
NoStatistics == [median |-> 0, p95 |-> 0, sum |-> 0, n |-> 0]

\* the collectors as the constructors leave them, no benchmark run
MetricsIdle ==
    /\ metrics = [frameCount |-> 0, totalDetections |-> 0, latencies |-> <<>>]
    /\ rtcMetrics = [frames |-> 0, detections |-> 0, latencies |-> <<>>,
                     startTime |-> PageLoadTime]
    /\ sampleLog = <<>>
    /\ benchmarkActive = FALSE /\ benchmarkStartTime = 0
    /\ benchBtnDisabled = FALSE /\ benchTimer = 0
    /\ report = [kind |-> "none"] /\ atElapse = [kind |-> "none"]
    /\ latencyStats = NoStatistics

\* nothing shown to the user yet
ObsIdle == lastAlert = "none"

\* no message handled yet
MsgIdle == uncaught = "none" /\ stored = <<>>

\* run_bench.sh is not running
NoBench == [pc |-> "off"]

ScriptIdle == bench = NoBench

\* detection_config.js has run: the defaults, and window.DETECTION_CONFIG is
\* the object the `let` was bound to when the script was loaded
ConfigDefault ==
    DETECTION_CONFIG = [served |-> 0, binding |-> DefaultInterval,
                        window |-> DefaultInterval]

EnvIdle == ScriptIdle /\ ConfigDefault

\* a connection that exists has run createPeerConnection to its end
SigIdle == negotiation = [local |-> pc = "open", remote |-> "none"]

AuxIdle ==
    PostIdle /\ HalfIdle /\ MetricsIdle /\ ObsIdle /\ MsgIdle /\ EnvIdle /\ SigIdle

EngineInit ==
    /\ detectionEngine = "null" /\ isLoaded = FALSE /\ isDetecting = FALSE
    /\ session = "null" /\ lastFrameTime = 0 /\ detectionHistory = <<>>
    /\ inflight = <<>> /\ lastRequest = [t |-> 0, kind |-> "none", detectAt |-> 0]
    /\ lastCached = EmptyBatch

AppInit ==
    /\ loadPhase = "config" /\ startBtnDisabled = TRUE
    /\ pendingStarts = <<>> /\ localStream = "null" /\ pc = "null"
    /\ videoReady = FALSE /\ detectionActive = FALSE
    /\ detectionInterval = [declared |-> FALSE, id |-> 0]
    /\ intervals = <<>> /\ nextTimerId = 1
    /\ overlay = ClearOverlay /\ detectionList = EmptyBatch

Init ==
    /\ now = PageLoadTime
    /\ EngineInit /\ AppInit /\ RtcIdle /\ WsIdle /\ AuxIdle
    /\ stopBtnDisabled \in BOOLEAN      \* set by the page's markup

Next ==
    \/ \E e \in {"yolo", "gemini"}, keyOk \in BOOLEAN : LoadConfig(e, keyOk, 0)
    \/ \E o \in {"loaded", "modelError", "scriptError"} : YoloInitDone(o)
    \/ StartCamera
    \/ \E k \in 1..Len(pendingStarts), ok \in BOOLEAN : GumDone(k, ok)
    \/ \E k \in 1..Len(pendingStarts) : OfferDone(k)
    \/ VideoLoaded
    \/ StopCamera
    \/ \E i \in 1..Len(intervals) : SamplerTick(i)
    \/ \E k \in 1..Len(inflight), ok \in BOOLEAN, n \in 0..MaxBatch :
           YoloRunDone(k, ok, n)
    \/ \E k \in 1..Len(inflight), r \in {"ok", "429", "error"}, n \in 0..MaxBatch :
           GeminiResponse(k, r, n)
    \/ \E k \in 1..Len(inflight) : GeminiRetry(k)
    \/ Advance

Spec == Init /\ [][Next]_vars

(***************************************************************************)
(* SpecWS: the signaling channel.  connectWebSocket is the same in app.js  *)
(* (178-211), app_simple.js (80-113) and WebRTCDetectionApp (61-90).       *)
(* A socket record keeps, besides its readyState, the times the property   *)
(* speaks of: when the close that led to it happened (0 for the page's    *)
(* first connection), when it was created and when it opened.              *)
(***************************************************************************)
ReconnectDue_Immediate(t) == t

\* onclose: setTimeout(connectWebSocket, 3000), set at time t
ReconnectDue(t) == t + reconnectDelay

\* connectWebSocket: ws = new WebSocket(wsUrl)
NewSocket(dropAt) ==
    [state |-> "connecting", dropAt |-> dropAt, createdAt |-> now, openedAt |-> 0,
     sent |-> {}, offers |-> {}]

\* onopen sends the offer the connection is waiting on
WsOpen_ResendsOffer(k) ==
    /\ k \in 1..Len(ws) /\ ws[k].state = "connecting"
    /\ ws' = [ws EXCEPT ![k].state = "open", ![k].openedAt = now,
                        ![k].sent = IF negotiation.local THEN {"offer"} ELSE @,
                        ![k].offers = IF negotiation.local THEN {"own"} ELSE @]
    /\ UNCHANGED <<now, engVars, appVars, rtcVars, reconnectTimers>>
    /\ UNCHANGED auxVars

\* onopen: the handshake succeeded
WsOpen(k) ==
    /\ k \in 1..Len(ws) /\ ws[k].state = "connecting"
    /\ ws' = [ws EXCEPT ![k].state = "open", ![k].openedAt = now]
    /\ UNCHANGED <<now, engVars, appVars, rtcVars, reconnectTimers>>
    /\ UNCHANGED auxVars

WsError_Reconnects(k) ==
    /\ k \in 1..Len(ws) /\ ws[k].state \in {"connecting", "open"}
    /\ ws' = [ws EXCEPT ![k].state = "errored"]
    /\ reconnectTimers' =
           Append(reconnectTimers, [due |-> ReconnectDue(now), dropAt |-> now])
    /\ UNCHANGED <<now, engVars, appVars, rtcVars>>
    /\ UNCHANGED auxVars

\* onerror: the handshake failed or the connection broke; the browser fires
\* close next
WsError(k) ==
    /\ k \in 1..Len(ws) /\ ws[k].state \in {"connecting", "open"}
    /\ ws' = [ws EXCEPT ![k].state = "errored"]
    /\ UNCHANGED <<now, engVars, appVars, rtcVars, reconnectTimers>>
    /\ UNCHANGED auxVars

\* onclose: the connection is gone (after an error, or closed by the peer);
\* a reconnect is scheduled
WsClose(k) ==
    /\ k \in 1..Len(ws) /\ ws[k].state \in {"open", "errored"}
    /\ ws' = Remove(ws, k)
    /\ reconnectTimers' =
           Append(reconnectTimers, [due |-> ReconnectDue(now), dropAt |-> now])
    /\ UNCHANGED <<now, engVars, appVars, rtcVars>>
    /\ UNCHANGED auxVars

\* the reconnect timer fires: connectWebSocket
ReconnectFire(j) ==
    /\ j \in 1..Len(reconnectTimers) /\ reconnectTimers[j].due <= now
    /\ reconnectTimers' = Remove(reconnectTimers, j)
    /\ ws' = Append(ws, NewSocket(reconnectTimers[j].dropAt))
    /\ UNCHANGED <<now, engVars, appVars, rtcVars>>
    /\ UNCHANGED auxVars

AppIdle ==
    /\ AppInit /\ stopBtnDisabled = TRUE

\* initializeApp has called connectWebSocket
InitWS ==
    /\ now = PageLoadTime
    /\ EngineInit /\ AppIdle /\ RtcIdle /\ AuxIdle
    /\ ws = <<NewSocket(0)>> /\ reconnectTimers = <<>>

NextWS ==
    \/ \E k \in 1..Len(ws) : WsOpen(k)
    \/ \E k \in 1..Len(ws) : WsError(k)
    \/ \E k \in 1..Len(ws) : WsClose(k)
    \/ \E j \in 1..Len(reconnectTimers) : ReconnectFire(j)
    \/ Advance

SpecWS == InitWS /\ [][NextWS]_vars

(***************************************************************************)
(* SpecRTC: the WebRTCDetectionApp class (unnamed/part_000), with its      *)
(* signaling channel.  A loop record is one startVideoProcessing call: its *)
(* frameId counter and whether processFrame is scheduled (by                *)
(* requestAnimationFrame, directly or after the 1000/15 ms timeout) or     *)
(* suspended at await this.wasmModel.detect.                               *)
(***************************************************************************)
\* this.websocket.readyState, this.websocket being the socket made last
WsReadyState == IF ws = <<>> THEN "closed" ELSE ws[Len(ws)].state

\* this.websocket.send of messages of the given types: they go out on an
\* open socket and are discarded on a closing or closed one
Sent(types) ==
    IF WsReadyState = "open"
    THEN [ws EXCEPT ![Len(ws)].sent = @ \cup types]
    ELSE ws

\* processFrame's first test
CanCapture == rtcVideoWidth /\ rtcStream = "stream"

\* the wasm branch is taken on the mode alone
FrameTarget_ModeOnly ==
    IF inferenceMode = "wasm" THEN "wasm"
    ELSE IF inferenceMode = "server" /\ WsReadyState = "open" THEN "server"
    ELSE "dropped"

\* where processFrame sends the frame it captured
FrameTarget ==
    IF inferenceMode = "wasm" /\ wasmModel # "null" THEN "wasm"
    ELSE IF inferenceMode = "server" /\ WsReadyState = "open" THEN "server"
    ELSE "dropped"

\* one run of processFrame on loop record lp, up to its await or its end
AfterFrame(lp) ==
    IF ~CanCapture THEN lp             \* requestAnimationFrame(processFrame)
    ELSE [lp EXCEPT !.frameId = @ + 1,
                    !.state = IF FrameTarget = "wasm" THEN "detecting"
                              ELSE "scheduled"]

FrameSent == IF CanCapture /\ FrameTarget = "server" THEN 1 ELSE 0

FrameMessage == IF FrameSent = 1 THEN {"frame"} ELSE {}

\* handleDetections: drawOverlays(data.detections)
DrawOverlays(n) == [kind |-> "detections", batch |-> Batch("rtc", n)]

\* a config message arrives: handleWebSocketMessage, case 'config', through
\* initWasmInference when the mode is wasm
RtcConfig(mode) ==
    /\ WsReadyState = "open"
    /\ inferenceMode' = mode
    /\ wasmModel' = IF mode = "wasm" THEN "mock" ELSE wasmModel
    /\ UNCHANGED <<now, engVars, appVars, rtcStream, rtcVideoWidth, loops,
                   outstanding, rtcOverlay, rtcStarts, wsVars>>
    /\ UNCHANGED auxVars

\* a click on the start button: startCamera up to await getUserMedia
RtcStartCamera ==
    /\ ~startBtnDisabled
    /\ Len(rtcStarts) < MaxPendingStarts
    /\ Len(loops) + Len(rtcStarts) < MaxLoops
    /\ rtcStarts' = Append(rtcStarts, "gum")
    /\ UNCHANGED <<now, engVars, appVars, inferenceMode, wasmModel, rtcStream,
                   rtcVideoWidth, loops, outstanding, rtcOverlay, wsVars>>
    /\ UNCHANGED auxVars

\* getUserMedia settles (both facing modes tried)
RtcGumDone(k, ok) ==
    /\ k \in 1..Len(rtcStarts) /\ rtcStarts[k] = "gum"
    /\ IF ok
       THEN /\ rtcStream' = "stream"
            /\ rtcStarts' = [rtcStarts EXCEPT ![k] = "meta"]
            /\ UNCHANGED lastAlert
       ELSE \* the catch of startCamera: alert('Camera Error: ...')
            /\ rtcStarts' = Remove(rtcStarts, k)
            /\ lastAlert' = "camera"
            /\ UNCHANGED rtcStream
    /\ UNCHANGED <<now, engVars, appVars, inferenceMode, wasmModel,
                   rtcVideoWidth, loops, outstanding, rtcOverlay, wsVars>>
    /\ UNCHANGED <<postVars, halfVars, metVars, msgVars, envVars, sigVars>>

\* loadedmetadata fires on the video showing the stream (never once
\* stopCamera has set srcObject to null); createPeerConnection runs up to
\* await createOffer
RtcMetaLoaded(k) ==
    /\ k \in 1..Len(rtcStarts) /\ rtcStarts[k] = "meta"
    /\ rtcStream = "stream"
    /\ rtcVideoWidth' = TRUE
    /\ pc' = "open"
    /\ negotiation' = NoNegotiation
    /\ ws' = Disown(ws)
    /\ rtcStarts' = [Orphan(rtcStarts) EXCEPT ![k] = "offer"]
    /\ UNCHANGED <<now, engVars, loadPhase, startBtnDisabled, stopBtnDisabled,
                   pendingStarts, localStream, videoReady, detectionActive,
                   detectionInterval, intervals, nextTimerId, overlay,
                   detectionList, inferenceMode, wasmModel, rtcStream, loops,
                   outstanding, rtcOverlay, reconnectTimers>>
    /\ UNCHANGED <<postVars, halfVars, metVars, obsVars, msgVars, envVars>>

\* createOffer settles.  It rejects on a connection stopCamera has closed,
\* and this.websocket.send throws while the socket is still connecting:
\* startCamera then ends in its catch.  Otherwise startVideoProcessing runs
\* processFrame for the first time and the buttons are switched.
RtcOfferDone(k) ==
    /\ k \in 1..Len(rtcStarts) /\ rtcStarts[k] \in {"offer", "orphan"}
    /\ rtcStarts' = Remove(rtcStarts, k)
    /\ negotiation' = IF rtcStarts[k] = "offer" /\ pc # "null"
                      THEN [negotiation EXCEPT !.local = TRUE]
                      ELSE negotiation
    /\ IF rtcStarts[k] = "orphan" \/ pc = "null" \/ WsReadyState = "connecting"
       THEN /\ lastAlert' = "camera"
            /\ UNCHANGED <<loops, outstanding, startBtnDisabled, stopBtnDisabled,
                           ws>>
       ELSE /\ outstanding + FrameSent <= MaxOutstanding
            /\ ws' = Offered(Sent(FrameMessage))
            /\ UNCHANGED lastAlert
            /\ loops' = Append(loops, AfterFrame([frameId |-> 0,
                                                  state |-> "scheduled"]))
            /\ outstanding' = outstanding + FrameSent
            /\ startBtnDisabled' = TRUE
            /\ stopBtnDisabled' = FALSE
    /\ UNCHANGED <<now, engVars, loadPhase, pendingStarts, localStream, pc,
                   videoReady, detectionActive, detectionInterval, intervals,
                   nextTimerId, overlay, detectionList, inferenceMode, wasmModel,
                   rtcStream, rtcVideoWidth, rtcOverlay, reconnectTimers>>
    /\ UNCHANGED <<postVars, halfVars, metVars, msgVars, envVars>>

\* a click on the stop button: stopCamera
RtcStopCamera ==
    /\ ~stopBtnDisabled
    /\ rtcStream' = "null"
    /\ pc' = "null"
    /\ rtcVideoWidth' = FALSE
    /\ rtcOverlay' = ClearOverlay
    /\ negotiation' = NoNegotiation
    /\ ws' = Disown(ws)
    /\ rtcStarts' = Orphan(rtcStarts)
    /\ startBtnDisabled' = FALSE
    /\ stopBtnDisabled' = TRUE
    /\ UNCHANGED <<now, engVars, loadPhase, pendingStarts, localStream,
                   videoReady, detectionActive, detectionInterval, intervals,
                   nextTimerId, overlay, detectionList, inferenceMode, wasmModel,
                   loops, outstanding, reconnectTimers>>
    /\ UNCHANGED <<postVars, halfVars, metVars, obsVars, msgVars, envVars>>

\* a scheduled processFrame runs on loop l
ProcessFrame(l) ==
    /\ l \in 1..Len(loops) /\ loops[l].state = "scheduled"
    /\ CanCapture
    /\ loops[l].frameId < MaxFrames
    /\ outstanding + FrameSent <= MaxOutstanding
    /\ loops' = [loops EXCEPT ![l] = AfterFrame(loops[l])]
    /\ outstanding' = outstanding + FrameSent
    /\ ws' = Sent(FrameMessage)
    /\ UNCHANGED <<now, engVars, appVars, inferenceMode, wasmModel, rtcStream,
                   rtcVideoWidth, rtcOverlay, rtcStarts, reconnectTimers>>
    /\ UNCHANGED auxVars

\* this.wasmModel.detect settles on loop l: handleDetections, then the next
\* processFrame is scheduled
WasmDetectDone(l, n) ==
    /\ l \in 1..Len(loops) /\ loops[l].state = "detecting"
    /\ rtcOverlay' = DrawOverlays(n)
    /\ loops' = [loops EXCEPT ![l].state = "scheduled"]
    /\ UNCHANGED <<now, engVars, appVars, inferenceMode, wasmModel, rtcStream,
                   rtcVideoWidth, outstanding, rtcStarts, wsVars>>
    /\ UNCHANGED auxVars

\* the server's detections for a frame arrive: handleWebSocketMessage, case
\* 'detections'
ServerDetections(n) ==
    /\ WsReadyState = "open"
    /\ outstanding > 0
    /\ outstanding' = outstanding - 1
    /\ rtcOverlay' = DrawOverlays(n)
    /\ UNCHANGED <<now, engVars, appVars, inferenceMode, wasmModel, rtcStream,
                   rtcVideoWidth, loops, rtcStarts, wsVars>>
    /\ UNCHANGED auxVars

\* the constructor has run init(): the socket is connecting
InitRTC ==
    /\ now = PageLoadTime
    /\ EngineInit
    /\ loadPhase = "config" /\ startBtnDisabled = FALSE
    /\ stopBtnDisabled \in BOOLEAN      \* set by the page's markup
    /\ pendingStarts = <<>> /\ localStream = "null" /\ pc = "null"
    /\ videoReady = FALSE /\ detectionActive = FALSE
    /\ detectionInterval = [declared |-> FALSE, id |-> 0]
    /\ intervals = <<>> /\ nextTimerId = 1
    /\ overlay = ClearOverlay /\ detectionList = EmptyBatch
    /\ RtcIdle /\ AuxIdle
    /\ ws = <<NewSocket(0)>> /\ reconnectTimers = <<>>

NextRTC ==
    \/ \E k \in 1..Len(ws) : WsOpen(k)
    \/ \E k \in 1..Len(ws) : WsError(k)
    \/ \E k \in 1..Len(ws) : WsClose(k)
    \/ \E j \in 1..Len(reconnectTimers) : ReconnectFire(j)
    \/ now < MaxRtcTime /\ Advance
    \/ \E mode \in {"wasm", "server"} : RtcConfig(mode)
    \/ RtcStartCamera
    \/ \E k \in 1..Len(rtcStarts), ok \in BOOLEAN : RtcGumDone(k, ok)
    \/ \E k \in 1..Len(rtcStarts) : RtcMetaLoaded(k)
    \/ \E k \in 1..Len(rtcStarts) : RtcOfferDone(k)
    \/ RtcStopCamera
    \/ \E l \in 1..Len(loops) : ProcessFrame(l)
    \/ \E l \in 1..Len(loops), n \in 0..MaxBatch : WasmDetectDone(l, n)
    \/ \E n \in 0..MaxBatch : ServerDetections(n)

SpecRTC == InitRTC /\ [][NextRTC]_vars

(***************************************************************************)
(* SpecPost: DetectionEngine.postprocessResults on a raw model output.     *)
(* A row is [cx, cy, w, h, conf, scores]: the box in input pixels, the     *)
(* objectness in tenths, the class scores in tenths.  A detection keeps    *)
(* its box in units of 1 / (2 * inputSize) of the frame, so that           *)
(* (cx - w / 2) / inputSize is the integer 2 * cx - w, and its confidence  *)
(* in hundredths.  The row values are multiples of 80 pixels and of one    *)
(* tenth, on which the code's floating-point arithmetic is exact.          *)
(***************************************************************************)
\* 1.0 in detection units
BoxUnit == 2 * inputSize

RowCenters == {80, 160, 240}
RowScores  == {<<10, 5>>, <<5, 10>>, <<5, 5>>}
Rows ==
    [cx : RowCenters, cy : {320}, w : {320}, h : {320},
     conf : {4, 8, 9, 10}, scores : RowScores]

RECURSIVE SeqsUpTo(_, _)
SeqsUpTo(S, n) ==
    IF n = 0 THEN {<<>>}
    ELSE LET shorter == SeqsUpTo(S, n - 1)
         IN  shorter \cup {Append(q, e) : q \in shorter, e \in S}

\* postprocessResults 251-259: the first class with the highest score, a
\* score of 0 or less never being taken
RECURSIVE BestClass(_, _, _, _)
BestClass(scores, j, maxScore, classId) ==
    IF j > Len(scores) THEN [maxScore |-> maxScore, classId |-> classId]
    ELSE IF scores[j] > maxScore
         THEN BestClass(scores, j + 1, scores[j], j - 1)
         ELSE BestClass(scores, j + 1, maxScore, classId)

\* postprocessResults 261: confidence * maxScore
FinalScore(row) == row.conf * BestClass(row.scores, 1, 0, 0).maxScore

PassesFilters_Inclusive(row) ==
    /\ row.conf >= confidenceThreshold
    /\ FinalScore(row) > classThreshold

\* postprocessResults 244 and 264: the two filters
PassesFilters(row) ==
    /\ row.conf > confidenceThreshold
    /\ FinalScore(row) > classThreshold

\* postprocessResults 265-273: the detection pushed for row i
Detection(i, row) ==
    [row        |-> i,
     x          |-> 2 * row.cx - row.w,
     y          |-> 2 * row.cy - row.h,
     width      |-> 2 * row.w,
     height     |-> 2 * row.h,
     confidence |-> FinalScore(row),
     class      |-> BestClass(row.scores, 1, 0, 0).classId]

\* postprocessResults 240-276: the candidates, in row order
RECURSIVE CandidatesFrom(_, _)
CandidatesFrom(raw, i) ==
    IF i > Len(raw) THEN <<>>
    ELSE (IF PassesFilters(raw[i]) THEN <<Detection(i, raw[i])>> ELSE <<>>)
             \o CandidatesFrom(raw, i + 1)

Candidates(raw) == CandidatesFrom(raw, 1)

Max2(a, b) == IF a >= b THEN a ELSE b
Min2(a, b) == IF a <= b THEN a ELSE b

\* calculateIOU 314-321: the intersection area, 0 when the boxes do not
\* overlap
Intersection(box1, box2) ==
    LET x1 == Max2(box1.x, box2.x)
        y1 == Max2(box1.y, box2.y)
        x2 == Min2(box1.x + box1.width, box2.x + box2.width)
        y2 == Min2(box1.y + box1.height, box2.y + box2.height)
    IN  IF x2 <= x1 \/ y2 <= y1 THEN 0 ELSE (x2 - x1) * (y2 - y1)

\* calculateIOU 322-324
Union(box1, box2) ==
    box1.width * box1.height + box2.width * box2.height
        - Intersection(box1, box2)

Suppresses_Never(box1, box2) == FALSE

\* applyNMS 303-304: calculateIOU(box1, box2) > iouThreshold, the threshold
\* being 0.5
Suppresses(box1, box2) ==
    /\ Intersection(box1, box2) > 0
    /\ 2 * Intersection(box1, box2) > Union(box1, box2)

\* one step of the sort: d goes behind every detection whose confidence is
\* not lower (the sort is stable)
RECURSIVE InsertByConfidence(_, _)
InsertByConfidence(d, sorted) ==
    IF sorted = <<>> THEN <<d>>
    ELSE IF Head(sorted).confidence >= d.confidence
         THEN <<Head(sorted)>> \o InsertByConfidence(d, Tail(sorted))
         ELSE <<d>> \o sorted

RECURSIVE SortFrom(_, _, _)
SortFrom(detections, i, sorted) ==
    IF i > Len(detections) THEN sorted
    ELSE SortFrom(detections, i + 1, InsertByConfidence(detections[i], sorted))

SortByConfidence_RunDependent(detections) ==
    LET sorted == SortFrom(detections, 1, <<>>)
    IN  IF postRuns = <<>> THEN sorted
        ELSE [i \in 1..Len(sorted) |-> sorted[Len(sorted) + 1 - i]]

\* applyNMS 289: detections.sort((a, b) => b.confidence - a.confidence)
SortByConfidence(detections) == SortFrom(detections, 1, <<>>)

\* applyNMS 294-308 on the sorted candidates: keep the first, drop what it
\* suppresses, go on with the rest
RECURSIVE KeepGreedy(_)
KeepGreedy(sorted) ==
    IF sorted = <<>> THEN <<>>
    ELSE <<Head(sorted)>> \o
         KeepGreedy(SelectSeq(Tail(sorted),
                              LAMBDA d : ~Suppresses(Head(sorted), d)))

applyNMS_Unsorted(detections) == KeepGreedy(detections)

applyNMS(detections) == KeepGreedy(SortByConfidence(detections))

postprocessResults_NoLimit(raw) == applyNMS(Candidates(raw))

\* postprocessResults 279-282
postprocessResults(raw) ==
    LET filteredDetections == applyNMS(Candidates(raw))
    IN  SubSeq(filteredDetections, 1, Min2(Len(filteredDetections), maxDetections))

\* runONNXInference 153: the post-processor runs on the model's output
RunPostprocess ==
    /\ Len(postRuns) < MaxRuns
    /\ postRuns' = Append(postRuns, postprocessResults(rawOutput))
    /\ UNCHANGED <<now, engVars, appVars, rtcVars, wsVars, rawOutput, halfVars,
                   metVars, obsVars, msgVars, envVars, sigVars>>

\* the on-device engine has loaded its model
YoloReady ==
    /\ detectionEngine = "yolo" /\ isLoaded = TRUE /\ isDetecting = FALSE
    /\ session = "loaded" /\ lastFrameTime = 0 /\ detectionHistory = <<>>
    /\ inflight = <<>> /\ lastRequest = [t |-> 0, kind |-> "none", detectAt |-> 0]
    /\ lastCached = EmptyBatch
    /\ loadPhase = "ready" /\ startBtnDisabled = FALSE /\ stopBtnDisabled = TRUE
    /\ pendingStarts = <<>> /\ localStream = "null" /\ pc = "null"
    /\ videoReady = FALSE /\ detectionActive = FALSE
    /\ detectionInterval = [declared |-> FALSE, id |-> 0]
    /\ intervals = <<>> /\ nextTimerId = 1
    /\ overlay = ClearOverlay /\ detectionList = EmptyBatch

InitPost ==
    /\ now = PageLoadTime
    /\ YoloReady /\ RtcIdle /\ WsIdle
    /\ rawOutput \in SeqsUpTo(Rows, MaxRows)
    /\ postRuns = <<>>
    /\ HalfIdle /\ MetricsIdle /\ ObsIdle /\ MsgIdle /\ EnvIdle /\ SigIdle

NextPost == RunPostprocess

SpecPost == InitPost /\ [][NextPost]_vars

\* the post-processor on rows that sit on and around the two thresholds:
\* objectness 0.4, 0.5, 0.6 and 1.0; class scores that tie, that are all 0,
\* and that exceed 1
FilterRows ==
    [cx : {320}, cy : {320}, w : {320}, h : {320},
     conf : {4, 5, 6, 10},
     scores : {<<10, 10>>, <<5, 20>>, <<20, 5>>, <<0, 0>>}]

InitFilter ==
    /\ now = PageLoadTime
    /\ YoloReady /\ RtcIdle /\ WsIdle
    /\ rawOutput \in SeqsUpTo(FilterRows, MaxFilterRows)
    /\ postRuns = <<>>
    /\ HalfIdle /\ MetricsIdle /\ ObsIdle /\ MsgIdle /\ EnvIdle /\ SigIdle

SpecFilter == InitFilter /\ [][NextPost]_vars

\* the post-processor on outputs of maxDetections rows and more: small boxes
\* side by side, each passing both filters with a fused score of 0.8 or
\* 1.0 (any of the two for the leading rows, alternating after them); the
\* last row may lie on the box before it
GridRow(k, conf) ==
    [cx |-> 40 * k, cy |-> 320, w |-> 40, h |-> 40, conf |-> conf,
     scores |-> <<10, 5>>]

GridOutputs ==
    UNION {{[k \in 1..n |-> GridRow(IF k = n /\ onPrevious THEN k - 1 ELSE k,
                                     IF k <= MaxGridVaried THEN c[k]
                                     ELSE IF k % 2 = 0 THEN 8 ELSE 10)] :
                c \in [1..MaxGridVaried -> {8, 10}], onPrevious \in BOOLEAN} :
           n \in maxDetections..MaxGridRows}

InitLimit ==
    /\ now = PageLoadTime
    /\ YoloReady /\ RtcIdle /\ WsIdle
    /\ rawOutput \in GridOutputs
    /\ postRuns = <<>>
    /\ HalfIdle /\ MetricsIdle /\ ObsIdle /\ MsgIdle /\ EnvIdle /\ SigIdle

SpecLimit == InitLimit /\ [][NextPost]_vars

(***************************************************************************)
(* SpecHalf: DetectionEngine.float32ToFloat16.  The argument is the bit    *)
(* pattern floatView[0] = value leaves in int32View[0], given by its       *)
(* fields: sign (bit 31), e (bits 30-23), m (bits 22-0).                   *)
(***************************************************************************)
\* x >> k for x >= 0
Shr(x, k) == x \div Pow2(k)

\* mantissas around each point where rounding or the ranges change
Mantissas ==
    {0, 1, \H1000, \H1001, \H1FFF, \H2000, \H3000, \H3001,
     \H400000, \H7FE000, \H7FE001, \H7FEFFF, \H7FF000, \H7FFFFF}

Float32s == [sign : {0, 1}, e : 0..255, m : Mantissas]

float32ToFloat16_Truncating(x) ==
    LET bits == x.sign * \H8000
        m    == Shr(x.m, 12) % \H800
        e    == x.e
    IN  IF e < 103 THEN bits
        ELSE IF e > 142 THEN bits + \H7C00
        ELSE IF e < 113 THEN bits + Shr(m + \H800, 114 - e)
        ELSE bits + (e - 112) * \H400 + Shr(m, 1)

\* float32ToFloat16 207-228.  bits holds the sign bit alone when the other
\* fields are or-ed in, so each |= adds.
float32ToFloat16(x) ==
    LET bits == x.sign * \H8000                 \* (x >> 16) & 0x8000
        m    == Shr(x.m, 12) % \H800            \* (x >> 12) & 0x007ff
        e    == x.e                             \* (x >> 23) & 0xff
    IN  IF e < 103 THEN bits
        ELSE IF e > 142 THEN bits + \H7C00
        ELSE IF e < 113
             THEN bits + Shr(m + \H800, 114 - e)
                       + (Shr(m + \H800, 113 - e) % 2)
        ELSE bits + (e - 112) * \H400 + Shr(m, 1) + (m % 2)

\* preprocessImage 198: one component is converted
Convert ==
    /\ f16 = -1
    /\ f16' = float32ToFloat16(f32)
    /\ UNCHANGED <<now, engVars, appVars, rtcVars, wsVars, postVars, f32, metVars, obsVars, msgVars, envVars, sigVars>>

InitHalf ==
    /\ now = PageLoadTime
    /\ YoloReady /\ RtcIdle /\ WsIdle /\ PostIdle /\ MetricsIdle
    /\ ObsIdle /\ MsgIdle /\ EnvIdle /\ SigIdle
    /\ f32 \in Float32s
    /\ f16 = -1

NextHalf == Convert

SpecHalf == InitHalf /\ [][NextHalf]_vars

(***************************************************************************)
(* SpecMetrics: the two metrics collectors, each on its page.  The page is *)
(* either app.js with a running session or WebRTCDetectionApp with its     *)
(* socket open.  The first MaxVaried samples of a run take any detection   *)
(* count and latency of the sets below; the later ones are nominal.        *)
(***************************************************************************)
Latencies == {0, 50}                   \* performance.now() - startTime
ServerFrameIds == {0, 1}                \* data.frame_id: frame_0, frame_1
CaptureOffsets == {-50, 0, 50}         \* Date.now() - data.capture_ts

Varied(choices, nominal) ==
    IF Len(sampleLog) < MaxVaried THEN choices ELSE {nominal}

PushShift_KeepOldest(latencies, latency) ==
    IF Len(latencies) < latencyCapacity THEN Append(latencies, latency)
    ELSE latencies

\* DetectionEngine.updateMetrics 369-372: push, then shift when over 100
PushShift(latencies, latency) ==
    LET pushed == Append(latencies, latency)
    IN  IF Len(pushed) > latencyCapacity THEN Tail(pushed) ELSE pushed

\* WebRTCDetectionApp.updateMetrics 391-396: push, then slice(-100) when
\* over 100
PushSlice(latencies, latency) ==
    LET pushed == Append(latencies, latency)
    IN  IF Len(pushed) > latencyCapacity
        THEN SubSeq(pushed, Len(pushed) - latencyCapacity + 1, Len(pushed))
        ELSE pushed

\* the page is index.html with app.js (an engine object exists) or the page
\* of WebRTCDetectionApp (no engine object)
OnAppPage == detectionEngine # "null"
OnRtcPage == detectionEngine = "null"

\* [...latencies].sort((a, b) => a - b): the samples equal to the least
\* value in their order of arrival, then those equal to the next value, ...
RECURSIVE SortAscendingFrom(_, _)
SortAscendingFrom(latencies, values) ==
    IF values = {} THEN <<>>
    ELSE LET least == CHOOSE v \in values : \A u \in values : v <= u
         IN  SelectSeq(latencies, LAMBDA x : x = least)
                 \o SortAscendingFrom(latencies, values \ {least})

sortedLatencies(latencies) ==
    SortAscendingFrom(latencies, {latencies[i] : i \in 1..Len(latencies)})

\* latencies.reduce((a, b) => a + b, 0), over the samples lo..hi: the sum
\* of the two halves
RECURSIVE SumFrom(_, _, _)
SumFrom(latencies, lo, hi) ==
    IF lo > hi THEN 0
    ELSE IF lo = hi THEN latencies[lo]
    ELSE SumFrom(latencies, lo, (lo + hi) \div 2)
             + SumFrom(latencies, ((lo + hi) \div 2) + 1, hi)

SumOf(latencies) == SumFrom(latencies, 1, Len(latencies))

medianLatency_LowerMiddle(sorted) == sorted[((Len(sorted) - 1) \div 2) + 1]

\* sortedLatencies[Math.floor(sortedLatencies.length / 2)], the arrays of the
\* code counting from 0
medianLatency(sorted) == sorted[(Len(sorted) \div 2) + 1]

\* sortedLatencies[Math.floor(sortedLatencies.length * 0.95)]
p95Latency(sorted) == sorted[((Len(sorted) * 95) \div 100) + 1]

\* DetectionEngine.updateMetrics 374-379 and updateMetricsDisplay 441-447 on
\* a buffer that is not empty; the mean is kept as sum and count
LatencyStatistics(latencies) ==
    LET sorted == sortedLatencies(latencies)
    IN  [median |-> medianLatency(sorted), p95 |-> p95Latency(sorted),
         sum |-> SumOf(latencies), n |-> Len(latencies)]

\* the display shows the statistics of the buffer as it is now; under
\* SpecMetrics at most one message arrives between two refreshes
DisplayFresh ==
    latencyStats = IF rtcMetrics.latencies = <<>> THEN NoStatistics
                   ELSE LatencyStatistics(rtcMetrics.latencies)

\* the 1 s timer of WebRTCDetectionApp refreshes the metrics display
UpdateMetricsDisplay ==
    /\ OnRtcPage
    /\ latencyStats' = IF rtcMetrics.latencies = <<>> THEN NoStatistics
                       ELSE LatencyStatistics(rtcMetrics.latencies)
    /\ UNCHANGED <<now, engVars, appVars, rtcVars, wsVars, postVars, halfVars,
                   obsVars, msgVars, envVars, sigVars, metrics, rtcMetrics, sampleLog,
                   benchmarkActive, benchmarkStartTime, benchBtnDisabled,
                   benchTimer, report, atElapse>>

\* the session of app.js is running on a loaded engine
SessionRunning(engine) ==
    /\ detectionEngine = engine /\ isLoaded = TRUE /\ isDetecting = FALSE
    /\ session = (IF engine = "yolo" THEN "loaded" ELSE "null")
    /\ lastFrameTime = 0 /\ detectionHistory = <<>> /\ inflight = <<>>
    /\ lastRequest = [t |-> IF engine = "yolo" THEN 0 ELSE PageLoadTime,
                      kind |-> IF engine = "yolo" THEN "none" ELSE "test",
                      detectAt |-> 0]
    /\ lastCached = EmptyBatch
    /\ loadPhase = "ready" /\ startBtnDisabled = TRUE /\ stopBtnDisabled = FALSE
    /\ pendingStarts = <<>> /\ localStream = "stream" /\ pc = "open"
    /\ videoReady = TRUE /\ detectionActive = TRUE
    /\ detectionInterval = [declared |-> TRUE, id |-> 1]
    /\ intervals = <<[id |-> 1, frameCount |-> 0, period |-> DefaultInterval]>>
    /\ nextTimerId = 2
    /\ overlay = ClearOverlay /\ detectionList = EmptyBatch

\* WebRTCDetectionApp has been constructed and its socket has opened
RtcConnected ==
    /\ EngineInit
    /\ loadPhase = "config" /\ startBtnDisabled = FALSE /\ stopBtnDisabled = TRUE
    /\ pendingStarts = <<>> /\ localStream = "null" /\ pc = "null"
    /\ videoReady = FALSE /\ detectionActive = FALSE
    /\ detectionInterval = [declared |-> FALSE, id |-> 0]
    /\ intervals = <<>> /\ nextTimerId = 1
    /\ overlay = ClearOverlay /\ detectionList = EmptyBatch
    /\ RtcIdle
    /\ ws = <<[state |-> "open", dropAt |-> 0, createdAt |-> PageLoadTime,
               openedAt |-> PageLoadTime, sent |-> {}, offers |-> {}]>>
    /\ reconnectTimers = <<>>

\* DetectionEngine.detectObjects 107-124 when the run succeeds:
\* updateMetrics(latency, detections.length)
RecordInference(n, latency) ==
    /\ detectionEngine = "yolo" /\ isLoaded /\ ~isDetecting /\ detectionActive
    /\ metrics' = [frameCount      |-> metrics.frameCount + 1,
                   totalDetections |-> metrics.totalDetections + n,
                   latencies       |-> PushShift(metrics.latencies, latency)]
    /\ latencyStats' = LatencyStatistics(PushShift(metrics.latencies, latency))
    /\ sampleLog' = Append(sampleLog, latency)
    /\ UNCHANGED <<now, engVars, appVars, rtcVars, wsVars, postVars, halfVars,
                   obsVars, msgVars, envVars, sigVars,
                   rtcMetrics, benchmarkActive, benchmarkStartTime,
                   benchBtnDisabled, benchTimer, report, atElapse>>

\* DetectionEngine.detectObjects 126-131 when the run throws: the catch
\* returns generateMockDetections(), which the sampler draws; updateMetrics
\* (line 122) is not reached
RecordFallback(mock) ==
    /\ detectionEngine = "yolo" /\ isLoaded /\ ~isDetecting /\ detectionActive
    /\ session = "loaded"
    /\ AfterDetect(YoloOnError(mock), intervals)
    /\ UNCHANGED <<now, engVars, loadPhase, startBtnDisabled, stopBtnDisabled,
                   pendingStarts, localStream, pc, videoReady, nextTimerId,
                   rtcVars, wsVars>>
    /\ UNCHANGED auxVars

\* handleDetections 368-371 and 380-383: this.detections.set(data.frame_id, ..)
\* and, past 100 entries, the deletion of the oldest key
StoreDetections(keys, id) ==
    LET added == IF \E k \in 1..Len(keys) : keys[k] = id
                 THEN keys ELSE Append(keys, id)
    IN  IF Len(added) > storeCapacity THEN Tail(added) ELSE added

\* a 'detections' message arrives: handleDetections 364-384 with
\* updateMetrics 386-397
HandleDetections(id, n, capture_ts) ==
    /\ WsReadyState = "open"
    /\ stored' = StoreDetections(stored, id)
    /\ rtcMetrics' = [rtcMetrics EXCEPT
                          !.frames = @ + 1,
                          !.detections = @ + n,
                          !.latencies = PushSlice(@, now - capture_ts)]
    /\ sampleLog' = Append(sampleLog, now - capture_ts)
    /\ rtcOverlay' = DrawOverlays(n)
    /\ UNCHANGED <<now, engVars, appVars, inferenceMode, wasmModel, rtcStream,
                   rtcVideoWidth, loops, outstanding, rtcStarts, wsVars, postVars,
                   halfVars, obsVars, envVars, sigVars, uncaught, metrics, benchmarkActive,
                   benchmarkStartTime,
                   benchBtnDisabled, benchTimer, report, atElapse, latencyStats>>

InitMetrics ==
    /\ now = PageLoadTime
    /\ \/ SessionRunning("yolo") /\ RtcIdle /\ WsIdle
       \/ RtcConnected
    /\ AuxIdle

NextMetrics ==
    \/ /\ Len(sampleLog) < MaxSamples
       /\ \E n \in Varied(0..MaxBatch, 1), latency \in Varied(Latencies, 0) :
              RecordInference(n, latency)
    \/ /\ Len(sampleLog) < MaxSamples
       /\ DisplayFresh
       /\ \E id \in Varied(ServerFrameIds, 0), n \in Varied(0..MaxBatch, 1),
             off \in Varied(CaptureOffsets, 0) :
              HandleDetections(id, n, now - off)
    \/ UpdateMetricsDisplay

SpecMetrics == InitMetrics /\ [][NextMetrics]_vars

(***************************************************************************)
(* The benchmark of both pages: app.js runBenchmark / downloadMetrics and   *)
(* WebRTCDetectionApp.runBenchmark / getBenchmarkSummary.                   *)
(***************************************************************************)
NoMetrics == [frameCount |-> 0, totalDetections |-> 0, latencies |-> <<>>]

\* detectionEngine.getMetrics(): DetectionEngine reads this.metrics;
\* GeminiDetectionEngine reads window.detectionMetrics, which only its
\* updateMetrics creates and nothing calls, so it returns the zero defaults
getMetrics == IF detectionEngine = "yolo" THEN metrics ELSE NoMetrics

\* app.js runBenchmark 677-682 with the latencies kept
ResetEngineMetrics_KeepLatencies ==
    IF detectionEngine = "yolo"
    THEN [NoMetrics EXCEPT !.latencies = metrics.latencies]
    ELSE metrics

\* app.js runBenchmark 677-682: only an engine with a metrics field is reset
ResetEngineMetrics ==
    IF detectionEngine = "yolo" THEN NoMetrics ELSE metrics

\* the benchmark button of app.js is clicked
RunBenchmark ==
    /\ OnAppPage /\ ~benchBtnDisabled
    /\ IF ~detectionActive
       THEN UNCHANGED metVars
       ELSE /\ metrics' = ResetEngineMetrics
            /\ sampleLog' = <<>>
            /\ benchmarkStartTime' = now
            /\ benchmarkActive' = TRUE
            /\ benchBtnDisabled' = TRUE
            /\ benchTimer' = now + benchmarkDuration
            /\ atElapse' = [kind |-> "none"]
            /\ UNCHANGED <<rtcMetrics, report, latencyStats>>
    /\ UNCHANGED <<now, engVars, appVars, rtcVars, wsVars, postVars, halfVars, obsVars, msgVars, envVars, sigVars>>

\* what the page holds when the duration elapses
Snapshot(kind, m, start) ==
    [kind |-> kind, start |-> start, frames |-> m.frameCount,
     detections |-> m.totalDetections, latencies |-> m.latencies]

\* the 30 s timer of app.js runBenchmark fires
BenchmarkTimeout ==
    /\ OnAppPage /\ benchTimer # 0 /\ benchTimer <= now
    /\ benchmarkActive' = FALSE
    /\ benchBtnDisabled' = FALSE
    /\ benchTimer' = 0
    /\ atElapse' = Snapshot("app", getMetrics, benchmarkStartTime)
    /\ UNCHANGED <<metrics, rtcMetrics, sampleLog, benchmarkStartTime, report,
                   latencyStats>>
    /\ UNCHANGED <<now, engVars, appVars, rtcVars, wsVars, postVars, halfVars, obsVars, msgVars, envVars, sigVars>>

\* the download button of app.js is clicked: the file is built from the
\* engine's metrics as they are at the click
DownloadMetrics ==
    /\ OnAppPage
    /\ report' = [kind       |-> "download",
                  start      |-> benchmarkStartTime,
                  final      |-> atElapse.kind # "none",
                  duration   |-> (now - sessionStartTime) \div 1000,
                  frames     |-> getMetrics.frameCount,
                  detections |-> getMetrics.totalDetections,
                  latencies  |-> getMetrics.latencies,
                  fpsNum     |-> IF detectionActive THEN 5 ELSE 0,
                  fpsDen     |-> 1]
    /\ UNCHANGED <<metrics, rtcMetrics, sampleLog, benchmarkActive,
                   benchmarkStartTime, benchBtnDisabled, benchTimer, atElapse,
                   latencyStats>>
    /\ UNCHANGED <<now, engVars, appVars, rtcVars, wsVars, postVars, halfVars, obsVars, msgVars, envVars, sigVars>>

\* WebRTCDetectionApp.getBenchmarkSummary: processed_fps is
\* frames / ((Date.now() - startTime) / 1000), kept as a fraction
getBenchmarkSummary ==
    [kind       |-> "summary",
     start      |-> rtcMetrics.startTime,
     final      |-> TRUE,
     duration   |-> 30,
     frames     |-> rtcMetrics.frames,
     detections |-> rtcMetrics.detections,
     latencies  |-> rtcMetrics.latencies,
     fpsNum     |-> rtcMetrics.frames * 1000,
     fpsDen     |-> now - rtcMetrics.startTime]

\* the benchmark button of WebRTCDetectionApp is clicked
RtcRunBenchmark ==
    /\ OnRtcPage /\ ~benchBtnDisabled
    /\ benchBtnDisabled' = TRUE
    /\ rtcMetrics' = [frames |-> 0, detections |-> 0, latencies |-> <<>>,
                      startTime |-> now]
    /\ sampleLog' = <<>>
    /\ benchTimer' = now + benchmarkDuration
    /\ atElapse' = [kind |-> "none"]
    /\ UNCHANGED <<metrics, benchmarkActive, benchmarkStartTime, report,
                   latencyStats>>
    /\ UNCHANGED <<now, engVars, appVars, rtcVars, wsVars, postVars, halfVars, obsVars, msgVars, envVars, sigVars>>

\* WebRTCDetectionApp.runBenchmark resumes after its 30 s wait
RtcBenchmarkDone ==
    /\ OnRtcPage /\ benchTimer # 0 /\ benchTimer <= now
    /\ report' = getBenchmarkSummary
    /\ atElapse' = [kind |-> "rtc", start |-> rtcMetrics.startTime,
                    frames |-> rtcMetrics.frames,
                    detections |-> rtcMetrics.detections,
                    latencies |-> rtcMetrics.latencies]
    /\ benchBtnDisabled' = FALSE
    /\ benchTimer' = 0
    /\ lastAlert' = "benchmark"
    /\ UNCHANGED <<metrics, rtcMetrics, sampleLog, benchmarkActive,
                   benchmarkStartTime, latencyStats>>
    /\ UNCHANGED <<now, engVars, appVars, rtcVars, wsVars, postVars, halfVars, msgVars, envVars, sigVars>>

\* time passes; a due benchmark timer runs before the clock moves on
AdvanceBench ==
    /\ now + BenchStep <= MaxBenchTime
    /\ benchTimer = 0 \/ benchTimer > now
    /\ now' = now + BenchStep
    /\ UNCHANGED <<engVars, appVars, rtcVars, wsVars, auxVars>>

InitBench ==
    /\ now = PageLoadTime
    /\ \/ \E e \in {"yolo", "gemini"} : SessionRunning(e) /\ RtcIdle /\ WsIdle
       \/ RtcConnected
    /\ AuxIdle

NextBench ==
    \/ /\ metrics.frameCount < MaxBenchFrames
       /\ \E n \in 0..MaxBatch, latency \in Latencies : RecordInference(n, latency)
    \/ \E mock \in YoloMockBatches : RecordFallback(mock)
    \/ /\ rtcMetrics.frames < MaxBenchFrames
       /\ \E n \in 0..MaxBatch : HandleDetections(0, n, now)
    \/ RunBenchmark
    \/ BenchmarkTimeout
    \/ DownloadMetrics
    \/ RtcRunBenchmark
    \/ RtcBenchmarkDone
    \/ OnAppPage /\ StopCamera
    \/ AdvanceBench

SpecBench == InitBench /\ [][NextBench]_vars

(***************************************************************************)
(* SpecMsg: inbound signaling messages on an open channel, for app.js      *)
(* (ws.onmessage 191-198, handleWebSocketMessage 213-232, drawDetections   *)
(* 564-591) and for WebRTCDetectionApp (websocket.onmessage 74-76,         *)
(* handleWebSocketMessage 97-124, handleDetections 364-384).  A message is *)
(* its text: not JSON at all, or JSON of some type; a detections message   *)
(* carries a list of n detections, no detections field, or a number in its *)
(* place.                                                                  *)
(***************************************************************************)
Message(type, payload, n) == [type |-> type, payload |-> payload, n |-> n]

NotJson == Message("invalid", "none", 0)

Malformed ==
    {NotJson, Message("detections", "absent", 0), Message("detections", "number", 0)}

Messages ==
    Malformed \cup {Message("config", "none", 0)}
              \cup {Message("detections", "list", n) : n \in 0..MaxBatch}

\* app.js drawDetections: returns on a missing list; otherwise clears the
\* canvas, then draws each element (forEach throws on a number, after the
\* clear; ws.onmessage catches it)
DrawServerDetections(m) ==
    IF m.payload = "absent" THEN overlay
    ELSE IF m.payload = "number" \/ m.n = 0 THEN ClearOverlay
    ELSE [kind |-> "detections", batch |-> Batch("server", m.n)]

\* app.js ws.onmessage: JSON.parse and handleWebSocketMessage inside try/catch
AppOnMessage(m) ==
    /\ OnAppPage /\ WsReadyState = "open"
    /\ overlay' = IF m.type = "detections" THEN DrawServerDetections(m) ELSE overlay
    /\ UNCHANGED <<now, engVars, loadPhase, startBtnDisabled, stopBtnDisabled,
                   pendingStarts, localStream, pc, videoReady, detectionActive,
                   detectionInterval, intervals, nextTimerId, detectionList,
                   rtcVars, wsVars, auxVars>>

\* WebRTCDetectionApp's websocket.onmessage on a malformed message.
\* JSON.parse throws out of the handler.  A detections message without a
\* list is stored and counted as a frame before data.detections.length
\* throws inside the async handleWebSocketMessage, whose promise nobody
\* awaits; a number in place of the list is left out (it poisons the
\* counters with NaN).
RtcOnMalformed(m, id) ==
    /\ OnRtcPage /\ WsReadyState = "open"
    /\ m \in {NotJson, Message("detections", "absent", 0)}
    /\ IF m = NotJson
       THEN /\ uncaught' = "exception"
            /\ UNCHANGED <<stored, rtcMetrics>>
       ELSE /\ stored' = StoreDetections(stored, id)
            /\ rtcMetrics' = [rtcMetrics EXCEPT !.frames = @ + 1]
            /\ uncaught' = "rejection"
    /\ UNCHANGED <<now, engVars, appVars, rtcVars, wsVars, postVars, halfVars,
                   obsVars, envVars, sigVars, metrics, sampleLog, benchmarkActive,
                   benchmarkStartTime, benchBtnDisabled, benchTimer, report,
                   atElapse, latencyStats>>

\* the channel of app.js is open
AppConnected ==
    /\ ws = <<[state |-> "open", dropAt |-> 0, createdAt |-> PageLoadTime,
               openedAt |-> PageLoadTime, sent |-> {}, offers |-> {}]>>
    /\ reconnectTimers = <<>>

InitMsg ==
    /\ now = PageLoadTime
    /\ \/ SessionRunning("yolo") /\ RtcIdle /\ AppConnected
       \/ RtcConnected
    /\ AuxIdle

NextMsg ==
    \/ \E m \in Messages : AppOnMessage(m)
    \/ /\ rtcMetrics.frames < MaxMsgFrames
       /\ \E m \in Malformed, id \in ServerFrameIds : RtcOnMalformed(m, id)
    \/ /\ rtcMetrics.frames < MaxMsgFrames
       /\ \E id \in ServerFrameIds, n \in 0..MaxBatch : HandleDetections(id, n, now)
    \/ OnAppPage /\ \E i \in 1..Len(intervals) : SamplerTick(i)
    \/ OnAppPage /\ \E k \in 1..Len(inflight), ok \in BOOLEAN, n \in 0..MaxBatch :
                        YoloRunDone(k, ok, n)

SpecMsg == InitMsg /\ [][NextMsg]_vars

(***************************************************************************)
(* bench/run_bench.sh: one run of the benchmark script, from main to the  *)
(* combined summary.  The script runs under `set -e`.  What the machine   *)
(* provides is an input: whether the demo's metrics API answers, whether  *)
(* the browser automation runs, whether the monitor can write its log.    *)
(***************************************************************************)
Sources == {"demo", "browser", "monitor"}

\* the key a source's file is merged under
Section(f) ==
    CASE f = "demo"    -> "demo_metrics"
      [] f = "browser" -> "browser_metrics"
      [] f = "monitor" -> "system_metrics"

ScriptStep(b) ==
    /\ bench' = b
    /\ UNCHANGED <<now, engVars, appVars, rtcVars, wsVars, postVars, halfVars,
                   metVars, obsVars, msgVars, DETECTION_CONFIG, sigVars>>

\* main: both background jobs are started, then the progress loop begins
MainStart ==
    /\ bench.pc = "main"
    /\ ScriptStep([bench EXCEPT !.pc = "progress", !.monitor = "running",
                               !.browser = "running"])

\* monitor_system &: the log is the header plus one row a second
MonitorSystem ==
    /\ bench.pc # "off" /\ bench.monitor = "running"
    /\ ScriptStep([bench EXCEPT
           !.monitor = "done",
           !.files = IF "monitor" \in bench.env THEN @ \cup {"monitor"} ELSE @])

\* run_browser_test &: the file is written only when node and puppeteer ran
RunBrowserTest ==
    /\ bench.pc # "off" /\ bench.browser = "running"
    /\ ScriptStep([bench EXCEPT
           !.browser = "done",
           !.files = IF "browser" \in bench.env THEN @ \cup {"browser"} ELSE @])

\* for i in $(seq 1 "$DURATION"): one second of the progress display
Progress ==
    /\ bench.pc = "progress" /\ bench.i < bench.duration
    /\ ScriptStep([bench EXCEPT !.i = @ + 1])

\* wait $monitor_pid || true; wait $browser_pid || true
WaitJobs ==
    /\ bench.pc = "progress" /\ bench.i = bench.duration
    /\ bench.monitor = "done" /\ bench.browser = "done"
    /\ ScriptStep([bench EXCEPT !.pc = "extract"])

\* extract_demo_metrics "$DURATION", a plain command of main: when curl fails
\* the function returns 1 and `set -e` ends the script there
ExtractDemoMetrics ==
    /\ bench.pc = "extract"
    /\ IF "demo" \in bench.env
       THEN ScriptStep([bench EXCEPT !.pc = "combine", !.files = @ \cup {"demo"}])
       ELSE ScriptStep([bench EXCEPT !.pc = "exit", !.status = 1])

\* combine_metrics: the fixed sections plus one per file that exists
CombineMetrics ==
    /\ bench.pc = "combine"
    /\ ScriptStep([bench EXCEPT
           !.pc = "exit", !.status = 0,
           !.output = {"benchmark", "summary"}
                          \cup {Section(f) : f \in bench.files}])

InitScript ==
    /\ now = PageLoadTime
    /\ EngineInit /\ AppIdle /\ RtcIdle /\ WsIdle
    /\ PostIdle /\ HalfIdle /\ MetricsIdle /\ ObsIdle /\ MsgIdle /\ SigIdle
    /\ ConfigDefault
    /\ \E env \in SUBSET Sources, d \in 1..MaxDuration, m \in {"wasm", "server"} :
           bench = [pc |-> "main", env |-> env, duration |-> d, mode |-> m,
                    i |-> 0, monitor |-> "none", browser |-> "none",
                    files |-> {}, output |-> {}, status |-> -1]

NextScript ==
    \/ MainStart
    \/ MonitorSystem
    \/ RunBrowserTest
    \/ Progress
    \/ WaitJobs
    \/ ExtractDemoMetrics
    \/ CombineMetrics

SpecScript == InitScript /\ [][NextScript]_vars

(***************************************************************************)
(* The page of app.js with a configuration served by /api/config: the     *)
(* answer carries a detection_interval or none, the local engine loads,   *)
(* and the camera is started and stopped.                                 *)
(***************************************************************************)
ServedIntervals == {0, DefaultInterval, 2 * DefaultInterval}

NextConfig ==
    \/ \E served \in ServedIntervals : LoadConfig("yolo", TRUE, served)
    \/ \E o \in {"loaded", "modelError"} : YoloInitDone(o)
    \/ StartCamera
    \/ \E k \in 1..Len(pendingStarts), ok \in BOOLEAN : GumDone(k, ok)
    \/ \E k \in 1..Len(pendingStarts) : OfferDone(k)
    \/ VideoLoaded
    \/ StopCamera
    \/ \E i \in 1..Len(intervals) : SamplerTick(i)
    \/ \E k \in 1..Len(inflight), n \in 0..MaxBatch : YoloRunDone(k, TRUE, n)

SpecConfig == Init /\ [][NextConfig]_vars

(***************************************************************************)
(* SpecSig: the offer/answer exchange on the signaling channel, for app.js *)
(* (createPeerConnection 410-448, handleWebSocketMessage 213-224,          *)
(* stopCamera 653-657) and for WebRTCDetectionApp (createPeerConnection    *)
(* 227-260, handleWebSocketMessage 97-106).  The server answers an offer   *)
(* on the socket the offer came in on; its answer can be delivered for as  *)
(* long as that socket is open.  A socket's offers field holds the offers  *)
(* sent on it whose answers may still arrive.                              *)
(***************************************************************************)
\* pc.setRemoteDescription(answer) on the page's connection: the answer
\* becomes the remote description if the connection has set its local
\* offer and no answer yet; otherwise the promise rejects
SetRemoteDescription(of) ==
    IF negotiation.local /\ negotiation.remote = "none"
    THEN [negotiation EXCEPT !.remote = of]
    ELSE negotiation

\* the answer to an offer has been delivered: the offers of connections
\* made before are kept apart only as a class, so one of them stays
Answered(sockets, k, of) ==
    [sockets EXCEPT ![k].offers = @ \ ({of} \cap {"own"})]

\* app.js ws.onmessage with an answer, on any socket still open:
\* if (pc) pc.setRemoteDescription(...).catch(...)
OnAnswer(k, of) ==
    /\ OnAppPage
    /\ k \in 1..Len(ws) /\ ws[k].state = "open" /\ of \in ws[k].offers
    /\ ws' = Answered(ws, k, of)
    /\ negotiation' = IF pc # "null" THEN SetRemoteDescription(of) ELSE negotiation
    /\ UNCHANGED <<now, engVars, appVars, rtcVars, reconnectTimers>>
    /\ UNCHANGED <<postVars, halfVars, metVars, obsVars, msgVars, envVars>>

\* WebRTCDetectionApp's websocket.onmessage with an answer: the same test,
\* but the rejection of setRemoteDescription leaves the async handler
RtcOnAnswer(k, of) ==
    /\ OnRtcPage
    /\ k \in 1..Len(ws) /\ ws[k].state = "open" /\ of \in ws[k].offers
    /\ ws' = Answered(ws, k, of)
    /\ negotiation' = IF pc # "null" THEN SetRemoteDescription(of) ELSE negotiation
    /\ uncaught' = IF pc # "null" /\ SetRemoteDescription(of) = negotiation
                   THEN "rejection" ELSE uncaught
    /\ UNCHANGED <<now, engVars, appVars, rtcVars, reconnectTimers>>
    /\ UNCHANGED <<postVars, halfVars, metVars, obsVars, stored, envVars>>

\* app.js with the camera running and the channel open since before the
\* camera was started: the offer of the connection went out on it
AppNegotiating ==
    /\ SessionRunning("yolo") /\ RtcIdle
    /\ ws = Offered(<<[state |-> "open", dropAt |-> 0, createdAt |-> PageLoadTime,
                       openedAt |-> PageLoadTime, sent |-> {}, offers |-> {}]>>)
    /\ reconnectTimers = <<>>
    /\ negotiation = [local |-> TRUE, remote |-> "none"]

InitSig ==
    /\ now = PageLoadTime
    /\ \/ AppNegotiating
       \/ RtcConnected /\ SigIdle
    /\ PostIdle /\ HalfIdle /\ MetricsIdle /\ ObsIdle /\ MsgIdle /\ EnvIdle

NextSig ==
    \/ \E k \in 1..Len(ws) : WsOpen(k)
    \/ \E k \in 1..Len(ws) : WsError(k)
    \/ \E k \in 1..Len(ws) : WsClose(k)
    \/ \E j \in 1..Len(reconnectTimers) : ReconnectFire(j)
    \/ now < MaxSigTime /\ Advance
    \/ OnAppPage /\ StartCamera
    \/ OnAppPage /\ \E k \in 1..Len(pendingStarts) : GumDone(k, TRUE)
    \/ OnAppPage /\ \E k \in 1..Len(pendingStarts) : OfferDone(k)
    \/ OnAppPage /\ StopCamera
    \/ \E k \in 1..Len(ws), of \in {"own", "other"} : OnAnswer(k, of)
    \/ OnRtcPage /\ RtcStartCamera
    \/ \E k \in 1..Len(rtcStarts) : RtcGumDone(k, TRUE)
    \/ \E k \in 1..Len(rtcStarts) : RtcMetaLoaded(k)
    \/ \E k \in 1..Len(rtcStarts) : RtcOfferDone(k)
    \/ OnRtcPage /\ RtcStopCamera
    \/ \E k \in 1..Len(ws), of \in {"own", "other"} : RtcOnAnswer(k, of)

SpecSig == InitSig /\ [][NextSig]_vars

(***************************************************************************)
(* Properties of app.js and its engine, checked under Spec.                *)
(***************************************************************************)
\* the step sends a fetch(): a new call starts with one, or a sleeping call
\* wakes and retries
RequestSent ==
    \/ /\ Len(inflight') = Len(inflight) + 1
       /\ inflight'[Len(inflight')].phase = "fetch"
    \/ \E k \in 1..Len(inflight) :
           /\ Len(inflight') = Len(inflight)
           /\ inflight[k].phase = "sleep" /\ inflight'[k].phase = "fetch"

\* the step sends the first fetch() of a detectObjects call
DetectRequestSent ==
    /\ Len(inflight') = Len(inflight) + 1
    /\ inflight'[Len(inflight')].phase = "fetch"
    /\ inflight'[Len(inflight')].purpose = "detect"

\* the step is a sampler firing on the remote engine that reaches
\* detectObjects while the engine is loaded and busy or cooling down
ThrottledDetectCall ==
    /\ detectionEngine = "gemini" /\ isLoaded
    /\ isDetecting \/ now - lastFrameTime < frameInterval
    /\ \E i \in 1..Len(intervals) :
           /\ (intervals[i].frameCount + 1) % SampleEvery = 0
           /\ SamplerTick(i)

\* what the caller shows for a returned batch
Shown(batch) == IF batch = EmptyBatch THEN generateTestDetections ELSE batch

\* C1: at most one inference execution (model run or API request chain) is
\* in progress on the engine at any time, whatever the interleaving of
\* sampler firings and completions.
C1_AtMostOneInference == Len(inflight) <= 1

\* C1 witness: an on-device run dispatched by the first sampler is still in
\* flight after a stop and a restart, and a firing of the second sampler has
\* met the busy engine: it got the empty list back (stopCamera had cleared
\* the overlay, which now shows the test boxes) and started nothing.
C1_Witness ==
    /\ detectionEngine = "yolo" /\ session = "loaded"
    /\ isDetecting /\ Len(inflight) = 1 /\ inflight[1].phase = "run"
    /\ inflight[1].timer \notin TimerIds /\ TimerIds # {}
    /\ overlay.kind = "test"

\* C4: the result of an inference call whose sampler stopCamera has
\* cancelled is discarded: when the call completes, neither the overlay nor
\* the detection list changes.
C4_ResultDiscardedAfterStop ==
    [][(\E k \in 1..Len(inflight) :
            /\ inflight[k].purpose = "detect"
            /\ inflight[k].timer \notin TimerIds
            /\ inflight' = Remove(inflight, k))
       => (overlay' = overlay /\ detectionList' = detectionList)]_vars

\* C6: after a failed engine initialisation, on-device or remote, the engine
\* is in mock mode (loaded, no session) and the camera can be started.
InitFailed ==
    \/ detectionEngine = "yolo" /\ loadPhase = "ready" /\ session = "null"
    \/ detectionEngine = "gemini" /\ loadPhase = "failed"

C6_InitFailureFallsBackToMock ==
    InitFailed =>
        /\ isLoaded
        /\ ~startBtnDisabled \/ pendingStarts # <<>> \/ localStream = "stream"

\* C7: when the on-device run raises a tensor error, the caller stops
\* dispatching to the engine: the sampler that dispatched the run is
\* cancelled and detection is inactive.
C7_TensorErrorStopsDispatch ==
    [][(\E k \in 1..Len(inflight), n \in 1..2 :
            /\ YoloRunDone(k, FALSE, n)
            /\ inflight[k].timer \in TimerIds
            /\ detectionList' = Batch("mock", n))
       => (detectionActive' = FALSE /\ intervals' = <<>>)]_vars

\* C8 as stated: every request the remote engine sends is at least one
\* cooldown window after the request before it.
C8_OneRequestPerWindow ==
    [][RequestSent =>
           (lastRequest.kind = "none" \/ now - lastRequest.t >= frameInterval)]_vars

\* C8 amended: the first requests of two detectObjects calls are at least
\* one cooldown window apart (retries after a 429 and the connection test of
\* init are further requests, which the cooldown does not cover).
C8_OneDetectCallPerWindow ==
    [][DetectRequestSent =>
           (lastRequest.detectAt = 0 \/ now - lastRequest.detectAt >= frameInterval)]_vars

\* C8 witness: a second detect call has sent its request after an earlier
\* one was answered.
C8_Witness ==
    /\ lastRequest.kind = "detect" /\ Len(detectionHistory) >= 1
    /\ Len(inflight) = 1 /\ inflight[1].phase = "fetch"

\* C9: a detectObjects call on the loaded remote engine that arrives in the
\* cooldown, or while a call is in flight, returns the batch cached last
\* (the empty list when nothing is cached) in the same task, sends nothing,
\* and leaves lastFrameTime, the history and the busy flag as they were.
C9_ThrottledCallReturnsCache ==
    [][ThrottledDetectCall =>
           /\ detectionList' = Shown(lastCached)
           /\ overlay'.batch = Shown(lastCached)
           /\ ~RequestSent
           /\ UNCHANGED <<inflight, lastRequest, lastFrameTime,
                          detectionHistory, isDetecting>>]_vars

\* C9 witness: two different batches are cached; a call dispatched by the
\* first sampler is still in flight after a stop (which cleared the list) and
\* a restart, and a firing of the second sampler has met the busy engine:
\* the list shows the batch cached last.
C9_Witness ==
    /\ Len(detectionHistory) >= 2
    /\ detectionHistory[1] # detectionHistory[2]
    /\ isDetecting /\ Len(inflight) = 1
    /\ inflight[1].timer \notin TimerIds /\ TimerIds # {}
    /\ lastCached # EmptyBatch /\ detectionList = lastCached

\* C10: a retry after a 429 is sent no sooner than 2000 * 2^k ms after the
\* request it repeats (k retries made before it), a call makes at most 3
\* retries, and a detect call whose last attempt is rate limited ends by
\* returning the mock batch with the busy flag cleared.
C10_BackoffThenFallback ==
    /\ [](\A k \in 1..Len(inflight) : inflight[k].retryCount <= maxRetries)
    /\ [][\A k \in 1..Len(inflight) :
              /\ (/\ Len(inflight') = Len(inflight)
                  /\ inflight[k].phase = "sleep" /\ inflight'[k].phase = "fetch")
                 => /\ inflight[k].retryCount < maxRetries
                    /\ inflight'[k].retryCount = inflight[k].retryCount + 1
                    /\ now - lastRequest.t >=
                           baseDelay * Pow2(inflight[k].retryCount)
              /\ (/\ inflight[k].purpose = "detect"
                  /\ inflight[k].retryCount = maxRetries
                  /\ GeminiResponse(k, "429", 0))
                 => /\ inflight' = Remove(inflight, k)
                    /\ isDetecting' = FALSE
                    /\ detectionList' = GeminiMockDetections]_vars

\* C10 witness: a detect call has ended after its fourth 429: the mock
\* batch is shown and the flag is clear.
C10_Witness ==
    /\ detectionEngine = "gemini" /\ ~isDetecting /\ inflight = <<>>
    /\ detectionList = GeminiMockDetections

(***************************************************************************)
(* Properties of the signaling channel, checked under SpecWS.              *)
(***************************************************************************)
ChannelUp == \E k \in 1..Len(ws) : ws[k].state \in {"connecting", "open"}

\* C3 as stated: a connection that opens after a drop is Connected within
\* one retry interval of the drop.
C3_ConnectedWithinOneInterval ==
    \A k \in 1..Len(ws) :
        (ws[k].state = "open" /\ ws[k].dropAt # 0)
            => ws[k].openedAt - ws[k].dropAt <= reconnectDelay

\* C3 amended: every close schedules one new attempt 3000 ms later, which is
\* made with no user action (while no connection is connecting or open, a
\* reconnect timer set by the last close is pending and not overdue); the
\* attempt starts no sooner than one retry interval after the drop, and the
\* channel is Connected when that attempt's handshake completes.
C3_ReconnectAfterFixedDelay ==
    /\ \A j \in 1..Len(reconnectTimers) :
           /\ reconnectTimers[j].due = reconnectTimers[j].dropAt + reconnectDelay
           /\ now - reconnectTimers[j].due < TimeStep
    /\ ~ChannelUp =>
           \/ reconnectTimers # <<>>
           \/ \E k \in 1..Len(ws) : ws[k].state = "errored"   \* close is next
    /\ \A k \in 1..Len(ws) :
           /\ ws[k].dropAt # 0 =>
                  /\ ws[k].createdAt >= ws[k].dropAt + reconnectDelay
                  /\ ws[k].createdAt - (ws[k].dropAt + reconnectDelay) < TimeStep
           /\ ws[k].state = "open" => ws[k].openedAt >= ws[k].createdAt

\* C3 witness: the channel is Connected again after a second drop, by the
\* attempt made one retry interval after it.
C3_Witness ==
    \E k \in 1..Len(ws) :
        /\ ws[k].state = "open" /\ ws[k].dropAt > PageLoadTime + reconnectDelay
        /\ ws[k].createdAt >= ws[k].dropAt + reconnectDelay

(***************************************************************************)
(* Properties of WebRTCDetectionApp, checked under SpecRTC.                *)
(***************************************************************************)
Detecting == {l \in 1..Len(loops) : loops[l].state = "detecting"}

\* frames dispatched for inference whose result has not come back
Outstanding == outstanding + Cardinality(Detecting)

\* C2: in either inference mode at most one dispatched frame awaits its
\* result.
C2_NoBacklog == Outstanding <= 1

\* C5: no processing loop is left while the session is stopped, and at most
\* one exists while it runs.
C5_SamplerCount ==
    /\ (rtcStream = "null" /\ rtcStarts = <<>>) => Len(loops) = 0
    /\ Len(loops) <= 1

(***************************************************************************)
(* Properties of the post-processor, checked under SpecPost.               *)
(***************************************************************************)
\* the detections of the last run, and the candidates they were chosen from
Output == postRuns[Len(postRuns)]
InOutput(d) == \E k \in 1..Len(Output) : Output[k] = d
Cands == Candidates(rawOutput)

\* IoU > 0.5, computed from the boxes
Overlapping(a, b) ==
    /\ Intersection(a, b) > 0
    /\ 2 * Intersection(a, b) > a.width * a.height + b.width * b.height
                                    - Intersection(a, b)

\* C11 as stated: of every pair of candidates with IoU > 0.5 the output has
\* the higher-scoring one and has not the lower-scoring one.
C11_PairKeepsHigherOnly ==
    postRuns # <<>> =>
        \A i, j \in 1..Len(Cands) :
            (Overlapping(Cands[i], Cands[j])
                 /\ Cands[i].confidence > Cands[j].confidence)
                => (InOutput(Cands[i]) /\ ~InOutput(Cands[j]))

\* C11 amended: no two detections of the output have IoU > 0.5; a candidate
\* is left out only when the output has a candidate scoring at least as high
\* with which its IoU exceeds 0.5; so of a pair with IoU > 0.5 the
\* lower-scoring one is absent whenever the higher-scoring one is retained,
\* and the highest-scoring candidate is always retained.
C11_GreedySuppression ==
    postRuns # <<>> =>
        /\ \A k, l \in 1..Len(Output) :
               k # l => ~Overlapping(Output[k], Output[l])
        /\ \A k \in 1..Len(Output) : \E i \in 1..Len(Cands) : Output[k] = Cands[i]
        /\ \A i \in 1..Len(Cands) :
               ~InOutput(Cands[i]) =>
                   \E k \in 1..Len(Output) :
                       /\ Overlapping(Output[k], Cands[i])
                       /\ Output[k].confidence >= Cands[i].confidence
        /\ \A i \in 1..Len(Cands) :
               (\A j \in 1..Len(Cands) :
                    \/ Cands[j].confidence < Cands[i].confidence
                    \/ Cands[j].confidence = Cands[i].confidence /\ j >= i)
                   => InOutput(Cands[i])

\* C11 witness: a run on three candidates where the second overlaps the
\* first and the third overlaps only the second
C11_Witness ==
    /\ postRuns # <<>> /\ Len(Cands) = 3 /\ Len(Output) = 2
    /\ \E i, j \in 1..3 :
           /\ Overlapping(Cands[i], Cands[j])
           /\ Cands[i].confidence > Cands[j].confidence
           /\ ~InOutput(Cands[i]) /\ InOutput(Cands[j])

\* C12: every detection the post-processor emits has a normalized box:
\* x >= 0, width > 0, x + width <= 1, and likewise for y and height.
C12_BoxesNormalized ==
    \A r \in 1..Len(postRuns) : \A k \in 1..Len(postRuns[r]) :
        LET d == postRuns[r][k]
        IN  /\ d.x >= 0 /\ d.width > 0 /\ d.x + d.width <= BoxUnit
            /\ d.y >= 0 /\ d.height > 0 /\ d.y + d.height <= BoxUnit

IsNumber == ~(f32.e = 255 /\ f32.m # 0)

\* the argument is positive and greater than 65504 = 0x477FE000
Above65504 ==
    /\ f32.sign = 0 /\ IsNumber
    /\ f32.e > 142 \/ (f32.e = 142 /\ f32.m > \H7FE000)

\* the argument is positive and at least 65520 = 0x477FF000
AtLeast65520 ==
    /\ f32.sign = 0 /\ IsNumber
    /\ f32.e > 142 \/ (f32.e = 142 /\ f32.m >= \H7FF000)

\* C14 as stated: 1.0 gives 0x3C00, 0.0 gives 0x0000, and every positive
\* value above the largest finite half value 65504 gives 0x7C00.
C14_KnownValuesAndSaturation ==
    f16 # -1 =>
        /\ f32 = [sign |-> 0, e |-> 127, m |-> 0] => f16 = \H3C00
        /\ f32 = [sign |-> 0, e |-> 0, m |-> 0] => f16 = 0
        /\ Above65504 => f16 = \H7C00

\* C14 amended: 1.0 gives 0x3C00, 0.0 gives 0x0000, every positive value of
\* at least 65520 gives the infinity pattern 0x7C00, and the values between
\* 65504 and 65520 give 0x7BFF, the largest finite half value.
C14_KnownValuesAndOverflow ==
    f16 # -1 =>
        /\ f32 = [sign |-> 0, e |-> 127, m |-> 0] => f16 = \H3C00
        /\ f32 = [sign |-> 0, e |-> 0, m |-> 0] => f16 = 0
        /\ AtLeast65520 => f16 = \H7C00
        /\ (Above65504 /\ ~AtLeast65520) => f16 = \H7BFF

\* C14 witness: 65520 itself has been converted
C14_Witness ==
    f32 = [sign |-> 0, e |-> 142, m |-> \H7FF000] /\ f16 = \H7C00

\* n / 2^k rounded to the nearest integer, ties to the even one
RoundNearestEven(n, k) ==
    LET q    == n \div Pow2(k)
        r    == n % Pow2(k)
        half == Pow2(k - 1)
    IN  IF r > half \/ (r = half /\ q % 2 = 1) THEN q + 1 ELSE q

\* the IEEE-754 binary16 encoding of the float32 number x, correctly
\* rounded: x is (2^23 + m) * 2^(e - 150) for e > 0; below e = 102 it is
\* less than half of the smallest half subnormal 2^-24
Binary16(x) ==
    LET sig  == Pow2(23) + x.m
        sign == x.sign * \H8000
        mag  == IF x.e = 255 THEN \H7C00
                ELSE IF x.e >= 113
                     THEN (x.e - 113) * \H400 + RoundNearestEven(sig, 13)
                ELSE IF x.e >= 102
                     THEN RoundNearestEven(sig, 126 - x.e)
                ELSE 0
    IN  sign + (IF mag > \H7C00 THEN \H7C00 ELSE mag)

\* C15: for every float32 number the result is exactly the binary16
\* encoding of the value rounded to nearest, ties to even, as a 16-bit
\* integer.
C15_ExactBinary16 ==
    (f16 # -1 /\ IsNumber) => (f16 \in 0..\HFFFF /\ f16 = Binary16(f32))

(***************************************************************************)
(* Properties of the metrics collectors, checked under SpecMetrics.        *)
(***************************************************************************)
\* the last min(Len(log), 100) samples of log, in arrival order
MostRecent(log) ==
    IF Len(log) <= 100 THEN log ELSE SubSeq(log, Len(log) - 99, Len(log))

\* C16: after any sequence of n latency samples each buffer holds exactly
\* the most recent min(n, 100) of them in arrival order.
C16_BufferHoldsMostRecent ==
    /\ detectionEngine = "yolo" =>
           /\ Len(metrics.latencies) <= 100
           /\ metrics.latencies = MostRecent(sampleLog)
    /\ detectionEngine = "null" =>
           /\ Len(rtcMetrics.latencies) <= 100
           /\ rtcMetrics.latencies = MostRecent(sampleLog)

\* C16 witness: more than 100 samples have arrived on the app.js page, the
\* first of them, now evicted, with a latency the others do not have
C16_Witness ==
    /\ detectionEngine = "yolo"
    /\ Len(sampleLog) > 100 /\ Len(metrics.latencies) = 100
    /\ sampleLog[1] # 0 /\ metrics.latencies[1] = 0

\* C17: every latency sample in a metrics buffer is >= 0, for batches
\* inferred locally and for batches pushed by the server.
C17_LatenciesNonNegative ==
    /\ \A i \in 1..Len(metrics.latencies) : metrics.latencies[i] >= 0
    /\ \A i \in 1..Len(rtcMetrics.latencies) : rtcMetrics.latencies[i] >= 0

(***************************************************************************)
(* Properties of the benchmark, checked under SpecBench.                   *)
(***************************************************************************)
\* the step starts a benchmark: its 30 s timer is armed
BenchmarkStarts == benchTimer = 0 /\ benchTimer' # 0

\* C18: starting a benchmark resets the metrics whichever engine is active:
\* right after the start the frame count is 0, the detection count is 0, the
\* latency buffer is empty and the start time is the time of the start.
C18_StartResetsMetrics ==
    [][BenchmarkStarts =>
         IF OnRtcPage
         THEN /\ rtcMetrics'.frames = 0 /\ rtcMetrics'.detections = 0
              /\ rtcMetrics'.latencies = <<>> /\ rtcMetrics'.startTime = now
         ELSE /\ getMetrics'.frameCount = 0 /\ getMetrics'.totalDetections = 0
              /\ getMetrics'.latencies = <<>> /\ benchmarkStartTime' = now]_vars

\* a second benchmark has just started after a first one that ended with
\* frames, detections and latencies recorded
C18_Witness ==
    /\ benchTimer = now + benchmarkDuration
    /\ atElapse.kind = "none"
    /\ report.kind # "none" /\ report.final /\ report.frames > 0
    /\ report.detections > 0 /\ report.latencies # <<>>
    /\ IF OnRtcPage THEN rtcMetrics.frames = 0 ELSE metrics.frameCount = 0

\* C19: when the benchmark duration elapses the metrics are frozen: a
\* summary produced for a run after its duration elapsed reports the frame
\* count, detection count and latencies as they were when it elapsed,
\* whatever frames are processed afterwards.
C19_SummaryFrozenAtElapse ==
    (/\ report.kind # "none" /\ report.final
     /\ atElapse.kind # "none" /\ report.start = atElapse.start)
    => /\ report.frames = atElapse.frames
       /\ report.detections = atElapse.detections
       /\ report.latencies = atElapse.latencies

\* C20: in every benchmark summary produced, processed_fps equals
\* frames_processed divided by duration_seconds, for every frame count and
\* duration (processed_fps is the fraction fpsNum / fpsDen).
C20_FpsIsFramesOverDuration ==
    (report.kind # "none" /\ report.duration > 0)
    => report.fpsNum * report.duration = report.frames * report.fpsDen

(***************************************************************************)
(* Properties of signaling sends and inbound messages.                     *)
(***************************************************************************)
\* the step is the end of createPeerConnection of WebRTCDetectionApp on a
\* live peer connection, reaching this.websocket.send(offer) while the
\* channel is not Connected
OfferSentWhileNotConnected ==
    /\ pc # "null" /\ WsReadyState # "open"
    /\ \E k \in 1..Len(rtcStarts) :
           rtcStarts[k] = "offer" /\ rtcStarts' = Remove(rtcStarts, k)

\* C21: sending a signaling message while the channel is not Connected
\* raises no error to the caller and changes neither the channel nor the
\* session: the message is dropped and startCamera goes on as after a
\* delivered offer, starting the frame loop.
C21_SendWhileDisconnectedIsSilent ==
    [][OfferSentWhileNotConnected =>
         /\ lastAlert' = lastAlert
         /\ UNCHANGED wsVars
         /\ Len(loops') = Len(loops) + 1]_vars

\* a malformed message left everything as it was
MessageDropped ==
    /\ uncaught' = uncaught
    /\ UNCHANGED <<ws, reconnectTimers, metrics, rtcMetrics, stored, overlay,
                   rtcOverlay, detectionList>>

\* C22: an inbound message that is not JSON, or lacks the payload of its
\* type, is dropped: no error escapes the handler, the channel stays
\* Connected, and metrics, stored detections and overlay are unchanged.
C22_MalformedMessageDropped ==
    [][\A m \in Malformed :
           (AppOnMessage(m) \/ \E id \in ServerFrameIds : RtcOnMalformed(m, id))
           => MessageDropped]_vars

(***************************************************************************)
(* Properties of camera start and stop.                                    *)
(***************************************************************************)
\* the step ends a startCamera call at its getUserMedia: acquisition failed
CaptureFailed ==
    \/ \E k \in 1..Len(pendingStarts) :
           pendingStarts[k] = "gum" /\ pendingStarts' = Remove(pendingStarts, k)
    \/ \E k \in 1..Len(rtcStarts) :
           rtcStarts[k] = "gum" /\ rtcStarts' = Remove(rtcStarts, k)

\* C23: when capture-device acquisition fails, startCamera shows an error
\* to the user and starts nothing: no stream is held, no peer connection is
\* created, no sampler or frame loop is started, detection stays as it was
\* and the buttons are not switched.
C23_CaptureFailureStartsNothing ==
    [][CaptureFailed =>
         /\ lastAlert' = "camera"
         /\ UNCHANGED <<localStream, rtcStream, pc, detectionActive, intervals,
                        detectionInterval, nextTimerId, loops, outstanding,
                        startBtnDisabled, stopBtnDisabled>>]_vars

\* acquisition has failed on a page that never had a session
C23_Witness ==
    /\ lastAlert = "camera" /\ pendingStarts = <<>>
    /\ loadPhase = "ready"
    /\ localStream = "null" /\ pc = "null" /\ ~detectionActive
    /\ intervals = <<>> /\ ~startBtnDisabled

(***************************************************************************)
(* Properties of the overlay of app.js, checked under Spec.                *)
(***************************************************************************)
\* the step is a sampler firing that reaches detectObjects while the engine
\* is busy with an earlier frame: the tick is skipped
SkippedTick ==
    /\ isLoaded /\ isDetecting
    /\ \E i \in 1..Len(intervals) :
           /\ (intervals[i].frameCount + 1) % SampleEvery = 0
           /\ SamplerTick(i)

\* C24: the overlay shows the detections of the most recently completed
\* inference batch; a tick that is skipped because the engine is busy
\* neither clears nor replaces what the overlay shows.
C24_SkippedTickKeepsOverlay ==
    [][(SkippedTick /\ overlay.kind = "detections") => overlay' = overlay]_vars

\* C25: stopCamera tears the session down synchronously from whatever state
\* it is called in: when it returns every track is stopped and the stream
\* reference is null, the peer connection is closed and null, and detection
\* is inactive.
C25_StopTearsDownSynchronously ==
    [][/\ StopCamera =>
            localStream' = "null" /\ pc' = "null" /\ ~detectionActive'
       /\ RtcStopCamera => rtcStream' = "null" /\ pc' = "null"]_vars

(***************************************************************************)
(* Properties of the signaling channel of WebRTCDetectionApp, checked      *)
(* under SpecRTC.                                                          *)
(***************************************************************************)
\* a session was started and stopCamera has torn it down since
TornDown ==
    /\ loops # <<>> /\ rtcStarts = <<>>
    /\ rtcStream = "null" /\ pc = "null" /\ stopBtnDisabled

\* C26: the reconnect loop runs only while the session is desired: once the
\* caller has torn the session down, no further reconnect attempt is
\* scheduled or made.
C26_NoReconnectAfterTeardown ==
    [][TornDown =>
         /\ Len(reconnectTimers') <= Len(reconnectTimers)
         /\ Len(ws') <= Len(ws)]_vars

\* C27: each time the signaling connection opens (at first and after every
\* reconnect) the channel becomes Connected and a Config request is sent
\* over the connection.
C27_OpenRequestsConfig ==
    [][\A k \in 1..Len(ws) :
           WsOpen(k) => ws'[k].state = "open" /\ "config" \in ws'[k].sent]_vars

\* C28: whatever subset of the partial sources (demo metrics, browser
\* metrics, system-monitor log) cannot be obtained, the run of run_bench.sh
\* ends having written the combined summary, with exactly the sections of
\* the sources that could be obtained next to the two fixed ones.
C28_AbsentSourcesOmitted ==
    bench.pc = "exit" =>
        /\ bench.status = 0
        /\ bench.output = {"benchmark", "summary"}
                              \cup {Section(f) : f \in bench.env}

\* the frame ids the loops of startVideoProcessing have handed out so far:
\* a loop whose counter stands at k has assigned frame_0 .. frame_(k-1)
AssignedFrameIds ==
    UNION {0..(loops[l].frameId - 1) : l \in 1..Len(loops)}

\* C29: the id a sampled frame gets is greater than every id this
\* application instance assigned before, so ids increase strictly in
\* sampling order and no two frames carry the same id, whatever the
\* sequence of startCamera and stopCamera.
C29_FrameIdsStrictlyIncrease ==
    [][\A l \in 1..Len(loops) :
           ProcessFrame(l) =>
               \A id \in AssignedFrameIds : loops[l].frameId > id]_vars

\* C30: every sampler timer runs at the configured interval: the
\* detection_interval the server's configuration supplied, and 2000 ms only
\* when it supplied none.
C30_TickIntervalIsConfigured ==
    \A i \in 1..Len(intervals) :
        loadPhase # "config" =>
            intervals[i].period = IF DETECTION_CONFIG.served = 0
                                  THEN DefaultInterval
                                  ELSE DETECTION_CONFIG.served

\* the positions of the output's detections among the candidates
RowsOf(out) == [k \in 1..Len(out) |-> out[k].row]

\* C31: what applyNMS returns is a subsequence of its input sorted by
\* descending confidence (every detection is one of the input, none twice,
\* in non-increasing confidence and, at equal confidence, in input order);
\* no two of them have IoU above 0.5; the highest-confidence input is kept;
\* every dropped input has IoU above 0.5 with a kept detection whose
\* confidence is at least its own.
C31_NmsKeepsSortedSubsequence ==
    postRuns # <<>> =>
        /\ \A k \in 1..Len(Output) :
               \E i \in 1..Len(Cands) : Output[k] = Cands[i]
        /\ \A k, l \in 1..Len(Output) :
               k < l =>
                   /\ Output[k].row # Output[l].row
                   /\ Output[k].confidence >= Output[l].confidence
                   /\ Output[k].confidence = Output[l].confidence
                          => Output[k].row < Output[l].row
                   /\ ~Overlapping(Output[k], Output[l])
        /\ Cands # <<>> =>
               /\ Output # <<>>
               /\ \A i \in 1..Len(Cands) :
                      Output[1].confidence >= Cands[i].confidence
        /\ \A i \in 1..Len(Cands) :
               (\A k \in 1..Len(Output) : Output[k] # Cands[i]) =>
                   \E k \in 1..Len(Output) :
                       /\ Overlapping(Output[k], Cands[i])
                       /\ Output[k].confidence >= Cands[i].confidence

\* C31 witness: of three candidates the sort moved a later one to the front,
\* and the one it overlaps was dropped
C31_Witness ==
    /\ postRuns # <<>> /\ Len(Cands) = 3 /\ Len(Output) = 2
    /\ RowsOf(Output)[1] > RowsOf(Output)[2]
    /\ \E i \in 1..3 : Overlapping(Output[1], Cands[i]) /\ Cands[i] # Output[1]
                           /\ Cands[i] # Output[2]

(***************************************************************************)
(* Properties of the two filters, checked under SpecFilter.                *)
(***************************************************************************)
\* the greatest class score of a row, and the first class that has it
\* (classes count from 0)
MaxClassScore(row) ==
    CHOOSE m \in {row.scores[j] : j \in 1..Len(row.scores)} :
        \A j \in 1..Len(row.scores) : row.scores[j] <= m

FirstBestClass(row) ==
    (CHOOSE j \in 1..Len(row.scores) :
         /\ row.scores[j] = MaxClassScore(row)
         /\ \A k \in 1..(j - 1) : row.scores[k] < MaxClassScore(row)) - 1

\* C32: a row of the raw output becomes a candidate for NMS exactly when
\* its objectness exceeds 0.5 and objectness times its greatest class score
\* exceeds 0.6; the candidate's label is the first class with the greatest
\* score and its confidence is that product.
C32_FilterAndLabel ==
    postRuns # <<>> =>
        /\ \A i \in 1..Len(rawOutput) :
               (\E k \in 1..Len(Cands) : Cands[k].row = i)
                   <=> /\ 10 * rawOutput[i].conf > 50
                       /\ rawOutput[i].conf * MaxClassScore(rawOutput[i]) > 60
        /\ \A k \in 1..Len(Cands) :
               /\ Cands[k].class = FirstBestClass(rawOutput[Cands[k].row])
               /\ Cands[k].confidence =
                      rawOutput[Cands[k].row].conf
                          * MaxClassScore(rawOutput[Cands[k].row])

\* C32 witness: a run on two rows, one with tied class scores that became a
\* candidate, one whose product exceeds 0.6 while its objectness is 0.5
C32_Witness ==
    /\ postRuns # <<>> /\ Len(rawOutput) = 2 /\ Len(Cands) = 1
    /\ \E i, j \in 1..2 :
           /\ rawOutput[i].scores = <<10, 10>> /\ Cands[1].row = i
           /\ rawOutput[j].conf = 5 /\ rawOutput[j].scores = <<5, 20>>

(***************************************************************************)
(* Properties of the truncation, checked under SpecLimit.                  *)
(***************************************************************************)
\* what non-maximum suppression left of the candidates
Survivors == applyNMS(Cands)

\* C33: postprocessResults returns at most 10 detections in descending
\* order of fused score; when more than 10 candidates survive NMS it
\* returns 10 of the survivors, and no survivor left out scores higher than
\* one returned.
C33_TenHighestSurvivors ==
    postRuns # <<>> =>
        /\ Len(Output) <= 10
        /\ \A k, l \in 1..Len(Output) :
               k < l => Output[k].confidence >= Output[l].confidence
        /\ \A k \in 1..Len(Output) :
               \E i \in 1..Len(Survivors) : Output[k] = Survivors[i]
        /\ Len(Survivors) <= 10 => Len(Output) = Len(Survivors)
        /\ Len(Survivors) > 10 =>
               /\ Len(Output) = 10
               /\ \A i \in 1..Len(Survivors) :
                      ~InOutput(Survivors[i]) =>
                          \A k \in 1..10 :
                              Output[k].confidence >= Survivors[i].confidence

\* C33 witness: twelve candidates, one suppressed, eleven survivors of both
\* scores, ten returned
C33_Witness ==
    /\ postRuns # <<>> /\ Len(Cands) = 12 /\ Len(Survivors) = 11
    /\ Len(Output) = 10
    /\ Output[1].confidence > Output[10].confidence
    /\ \E i \in 1..11 : ~InOutput(Survivors[i])

(***************************************************************************)
(* Properties of the latency statistics, checked under SpecMetrics.        *)
(***************************************************************************)
\* the k-th smallest of the samples, k counting from 1
OrderStatistic(samples, k) ==
    CHOOSE v \in {samples[i] : i \in 1..Len(samples)} :
        /\ Cardinality({i \in 1..Len(samples) : samples[i] < v}) < k
        /\ k <= Cardinality({i \in 1..Len(samples) : samples[i] <= v})

\* the statistics st are those of the n >= 1 samples: the entries
\* floor(n / 2) and floor(0.95 n) of their ascending sort (counting from 0,
\* both below n), their sum over n, and min <= median <= p95 <= max
StatisticsOf(st, samples) ==
    LET n == Len(samples)
    IN  /\ n >= 1 /\ st.n = n
        /\ n \div 2 < n /\ (95 * n) \div 100 < n
        /\ st.median = OrderStatistic(samples, (n \div 2) + 1)
        /\ st.p95 = OrderStatistic(samples, ((95 * n) \div 100) + 1)
        /\ st.sum = SumOf(samples)
        /\ st.median <= st.p95
        /\ \E i \in 1..n : samples[i] <= st.median
        /\ \E i \in 1..n : samples[i] >= st.p95
        /\ \A i \in 1..n : samples[i] >= OrderStatistic(samples, 1)
        /\ OrderStatistic(samples, 1) <= st.median
        /\ st.p95 <= OrderStatistic(samples, n)

\* C34: whenever the engine takes a new sample, and whenever the WebRTC page
\* refreshes its display over a buffer that is not empty, the statistics
\* are those of the buffered samples: median = s[floor(n/2)],
\* p95 = s[floor(0.95 n)], mean = sum / n, with both indices inside the
\* buffer and min <= median <= p95 <= max.
C34_StatisticsOfBuffer ==
    [][/\ (OnAppPage /\ metrics'.frameCount = metrics.frameCount + 1)
              => StatisticsOf(latencyStats', metrics'.latencies)
       /\ (UpdateMetricsDisplay /\ rtcMetrics.latencies # <<>>)
              => StatisticsOf(latencyStats', rtcMetrics'.latencies)]_vars

\* C34 witness: statistics over forty samples or more whose 95th percentile
\* lies below the greatest sample
C34_Witness ==
    /\ OnAppPage /\ latencyStats.n >= 40
    /\ latencyStats.n = Len(metrics.latencies)
    /\ \E i \in 1..Len(metrics.latencies) :
           metrics.latencies[i] > latencyStats.p95

\* the counters of the collector of the page
FramesProcessed == IF OnAppPage THEN getMetrics.frameCount ELSE rtcMetrics.frames
TotalDetections ==
    IF OnAppPage THEN getMetrics.totalDetections ELSE rtcMetrics.detections

\* C35: except at a benchmark reset neither counter decreases, and every
\* detect call that returns a batch, from the model or as the fallback after
\* an error, adds 1 to the frames processed and the size of the batch to the
\* total of detections.
C35_CountersFollowBatches ==
    [][/\ ~(RunBenchmark \/ RtcRunBenchmark) =>
              /\ FramesProcessed' >= FramesProcessed
              /\ TotalDetections' >= TotalDetections
       /\ \A n \in 0..MaxBatch, latency \in Latencies :
              RecordInference(n, latency) =>
                  /\ FramesProcessed' = FramesProcessed + 1
                  /\ TotalDetections' = TotalDetections + n
       /\ \A mock \in YoloMockBatches :
              RecordFallback(mock) =>
                  /\ FramesProcessed' = FramesProcessed + 1
                  /\ TotalDetections' = TotalDetections + mock.n]_vars

\* the connections that are connecting or open
LiveSockets == {k \in 1..Len(ws) : ws[k].state \in {"connecting", "open"}}

\* C36: the live signaling connections and the pending reconnect timers are
\* at most one in total, and the page holds no second socket beside one
\* that has errored; a close schedules exactly one reconnect and an error
\* schedules none, so an error followed by its close schedules one.
C36_OneConnectionOrOneTimer ==
    /\ [](/\ Cardinality(LiveSockets) + Len(reconnectTimers) <= 1
          /\ Len(ws) <= 1
          /\ ws # <<>> => reconnectTimers = <<>>)
    /\ [][/\ \A k \in 1..Len(ws) :
                 WsClose(k) => Len(reconnectTimers') = Len(reconnectTimers) + 1
          /\ \A k \in 1..Len(ws) :
                 WsError(k) => reconnectTimers' = reconnectTimers]_vars

\* C36 witness: the connection made by a reconnect errored and was closed,
\* and one timer is pending
C36_Witness ==
    /\ ws = <<>> /\ Len(reconnectTimers) = 1
    /\ reconnectTimers[1].dropAt >= PageLoadTime + reconnectDelay
(***************************************************************************)
(* Properties of the offer/answer exchange, checked under SpecSig.         *)
(***************************************************************************)
\* the step delivers an answer to the page's message handler
AnswerStep ==
    \E k \in 1..Len(ws), of \in {"own", "other"} : OnAnswer(k, of) \/ RtcOnAnswer(k, of)

\* C37: an answer is applied only to the peer connection whose offer it
\* answers: the remote description of the page's connection is never the
\* answer to the offer of a connection made before it (one that stopCamera
\* closed), and an answer delivered while there is no peer connection sets
\* nothing.
C37_AnswerAppliedToItsConnection ==
    /\ [](negotiation.remote # "other")
    /\ [][AnswerStep /\ pc = "null" => negotiation' = negotiation]_vars
\* the offer of the page's connection is on no socket: it was never sent,
\* it was answered, or the socket it went out on is gone
NoOwnOffer == \A k \in 1..Len(ws) : "own" \notin ws[k].offers

\* the page's connection has set its offer, has not got the answer to it
\* and cannot get it any more
Unanswerable ==
    /\ pc = "open" /\ negotiation.local /\ negotiation.remote # "own"
    /\ NoOwnOffer

\* C40: an offer is sent at most once per peer connection, at creation
\* time: a step that puts the connection's offer on a socket is the step in
\* which createPeerConnection sets that offer as the local description; and
\* once the offer is on no socket (the channel was not open then, or dropped
\* before the answer came) no reconnect sends it again, so the connection
\* never gets its answer for as long as it is the page's connection.
C40_OfferSentOnceAtCreation ==
    [][/\ NoOwnOffer /\ ~NoOwnOffer' =>
              pc = "open" /\ ~negotiation.local /\ negotiation'.local
       /\ Unanswerable /\ negotiation'.local => Unanswerable']_vars

\* C40 witness: the channel dropped and was reopened while the connection
\* waits for its answer, and nothing was sent on the new socket
C40_Witness ==
    /\ Unanswerable
    /\ \E k \in 1..Len(ws) :
           ws[k].state = "open" /\ ws[k].dropAt > 0 /\ ws[k].sent = {}
(***************************************************************************)
(* Properties of the engines' busy flag, checked under Spec.               *)
(***************************************************************************)
\* a detectObjects call that took the flag is suspended: at session.run, at
\* a fetch or in the sleep before a retry
DetectInFlight ==
    \E k \in 1..Len(inflight) : inflight[k].purpose = "detect"

\* C38: the busy flag of the engine is set exactly while a detect call that
\* took it has not finished: however the call ends (a result, an inference or
\* network error, the last retry rate limited) the flag is cleared with it,
\* so the flag is never set while no call is in flight and the next sampled
\* frame can be dispatched.
C38_BusyFlagTracksCall == isDetecting <=> DetectInFlight

\* C38 witness: a run of the local model failed (its mock batch is shown)
\* and a later firing of the sampler has taken the flag again.
C38_Witness ==
    /\ detectionEngine = "yolo" /\ session = "loaded"
    /\ detectionList = Batch("mock", 1)
    /\ isDetecting /\ DetectInFlight
(***************************************************************************)
(* Properties of WebRTCDetectionApp's inference mode, checked under        *)
(* SpecRTC.                                                                *)
(***************************************************************************)
\* no config message has been handled yet: the mode is the constructor's
\* and no model has been made (a config message sets the mode to server or
\* makes the model)
BeforeConfig == inferenceMode = "wasm" /\ wasmModel = "null"

\* some processFrame loop is suspended at await this.wasmModel.detect
Inferring == \E l \in 1..Len(loops) : loops[l].state = "detecting"

\* C39: in wasm mode no frame is passed to inference before a config
\* message has been handled: until then no loop awaits the model, no
\* detection batch has been drawn and no frame awaits the server; a
\* processFrame run captures its frame and drops it; and inference starts
\* only with a model made by a config message.
C39_NoInferenceBeforeConfig ==
    /\ [](BeforeConfig =>
              ~Inferring /\ rtcOverlay = ClearOverlay /\ outstanding = 0)
    /\ [][/\ BeforeConfig /\ (\E l \in 1..Len(loops) : ProcessFrame(l)) =>
                 /\ \E l \in 1..Len(loops) :
                        loops'[l].frameId = loops[l].frameId + 1
                 /\ ~Inferring'
                 /\ UNCHANGED <<rtcOverlay, outstanding, ws>>
          /\ ~Inferring /\ Inferring' =>
                 inferenceMode = "wasm" /\ wasmModel = "mock"]_vars

\* C39 witness: the camera runs, two frames have been captured and dropped
\* and no config message has arrived
C39_Witness ==
    /\ BeforeConfig /\ CanCapture
    /\ \E l \in 1..Len(loops) : loops[l].frameId = 2 /\ loops[l].state = "scheduled"

====
